---------------------------- MODULE Spec2Model ----------------------------
(***************************************************************************)
(* Observed-outcome evaluation engine of contilore: chronological holdout  *)
(* split, family-disjoint slicing, off/on pairing, stratum aggregation,    *)
(* gate evaluation and the per-family debug totals.                        *)
(*                                                                         *)
(* Conventions                                                             *)
(*  - Timestamps and session ids are strings in the source and are only    *)
(*    ever compared with < and >; they are modelled by their rank in that  *)
(*    order (a natural number).                                            *)
(*  - A JavaScript number produced by a division a / b is modelled as the  *)
(*    exact fraction [num |-> a, den |-> b]; den = 0 records a division by *)
(*    zero.  evalRatio is held in hundredths.                              *)
(*  - Each component of the engine has its own next-state relation and     *)
(*    specification (SpecSplit, SpecSlice, SpecPairs, SpecAgg, ...); the   *)
(*    variables of the other components stay at their initial values.      *)
(***************************************************************************)
EXTENDS Integers, Sequences, FiniteSets, Bags, TLC

VARIABLES
    sessions,        \* session summaries handed to splitSessionsChronologically
    requestedEvalRatio, \* the evalRatio argument of the call, or NoValue
    holdout,         \* its result, or NoValue before the call
    trainEpisodes,   \* episodes of the train sessions
    evalEpisodes,    \* episodes of the eval sessions
    disjointSlice,   \* result of buildFamilyDisjointEvalSlice, or NoValue
    episodes,        \* episodes handed to the pair builder
    pairingOptions,  \* options of the last buildPairs call, or NoValue
    pairs,           \* pairs returned by the last buildPairs call
    stratumPairs,    \* pairs of one stratum (input of the aggregation)
    thresholds,      \* thresholds of the last gate evaluation, or NoValue
    aggregate,       \* TrajectoryStratumAggregate, or NoValue
    gateResult,      \* {pass, failures}, or NoValue
    debugFamilies,   \* families of buildTrajectoryLaneDebug, or NoValue
    familyOverlap,   \* result of summarizeFamilyOverlap, or NoValue
    options,         \* ParsedOptions of the run (gate and exit flags), or NoValue
    laneReports,     \* gate results of the two lanes, or NoValue
    overallGateResult, \* gateResult of the run payload, or NoValue
    exitCode,        \* result of toExitCode, or NoValue
    strataEpisodes,  \* episodes handed to buildTrajectoryStrata
    strataPairs,     \* pairs handed to buildTrajectoryStrata
    strata,          \* its result {model, toolSurface, modelToolSurface}, or NoValue
    trustPairs,      \* pair list handed to the bootstrap trust estimator
    trustOptions,    \* {bootstrapSamples, confidenceLevel, seed}, or NoValue
    ambientRandom,   \* state of the ambient (global) random generator
    trustSummaries,  \* trust summaries of the invocations made so far
    laneFamilyCount, \* families.length of the lane whose rankings are built
    lanePairCount,   \* debugPairs.length of that lane
    debugLimits,     \* {debugMaxFamilies, debugMaxPairs}, or NoValue
    laneRankings,    \* the lists of the lane's debug record, or NoValue
    rawSignatures,   \* two raw family signatures that differ in secrets only
    debugTexts,      \* the text fields of their debug pairs, or NoValue
    holdoutOverlap, \* summarizeFamilyOverlap of the train and eval episodes, or NoValue
    traceEvents, \* trace events handed to the episode extractor
    extractions, \* episode lists of the extractions made so far
    documents, \* InMemoryLexicalIndex.documents: document by id
    postings, \* InMemoryLexicalIndex.postings: by term, the [docId, frequency] entries in insertion order
    searchQuery, \* query of the last search, or NoValue
    searchResults, \* results of the last search, or NoValue
    replacedDocument, \* {[id, text]} of the version the last upsert replaced, or {}
    eventsBySession, \* SimpleWrongTurnMiner.eventsBySession: [sessionId, events] in order of first ingest
    ingestCalls, \* number of ingest calls and runs made
    mineLimit, \* limit argument of the mine calls ({} when omitted), or NoValue
    minings, \* artifact lists returned by the mine calls made so far
    clockMs, \* Date.now() of the team auth process
    cache, \* createRemoteTeamAuth: token -> cached entry, if any
    lookups, \* the bag of resolveTeamId calls waiting for the remote answer
    lastLookup, \* per token, the remote lookup that finished last
    resolved, \* what the resolveTeamId call that finished in the last step returned or threw
    piRecords, \* the records of a Pi session file, in file order
    piTraceEvents, \* buildTraceEventsFromPiSessionRecords: the returned events, once built
    pc               \* position of the run

vars == <<sessions, requestedEvalRatio, holdout, trainEpisodes, evalEpisodes, disjointSlice,
          episodes, pairingOptions, pairs, stratumPairs, thresholds,
          aggregate, gateResult, debugFamilies, familyOverlap, options,
          laneReports, overallGateResult, exitCode, strataEpisodes,
          strataPairs, strata, trustPairs, trustOptions, ambientRandom,
          trustSummaries, laneFamilyCount, lanePairCount, debugLimits,
          laneRankings, rawSignatures, debugTexts,
          holdoutOverlap,
          traceEvents, extractions,
          documents, postings, searchQuery, searchResults, replacedDocument,
          eventsBySession, ingestCalls, mineLimit, minings,
          clockMs, cache, lookups, lastLookup, resolved,
          piRecords, piTraceEvents, pc>>

splitVars == <<sessions, requestedEvalRatio, holdout>>
sliceVars == <<trainEpisodes, evalEpisodes, disjointSlice>>
pairVars  == <<episodes, pairingOptions, pairs>>
aggVars   == <<stratumPairs, thresholds, aggregate, gateResult, debugFamilies>>
runVars   == <<familyOverlap, options, laneReports, overallGateResult, exitCode>>

\* the variables of the components added after the stratum aggregation
strataVars == <<strataEpisodes, strataPairs, strata>>

trustVars == <<trustPairs, trustOptions, ambientRandom, trustSummaries>>

rankVars == <<laneFamilyCount, lanePairCount, debugLimits, laneRankings>>

textVars == <<rawSignatures, debugTexts>>

overlapVars == <<holdoutOverlap>>

extractVars == <<traceEvents, extractions>>

indexVars == <<documents, postings, searchQuery, searchResults,
              replacedDocument>>

minerVars == <<eventsBySession, ingestCalls, mineLimit, minings>>

authVars == <<clockMs, cache, lookups, lastLookup, resolved>>

piVars == <<piRecords, piTraceEvents>>

restVars  == <<runVars, strataVars, trustVars, rankVars, textVars,
              overlapVars,
              extractVars,
              indexVars,
              minerVars,
              authVars,
              piVars>>

\* the variables a component added after the stratum aggregation leaves alone
firstVars == <<splitVars, sliceVars, pairVars, aggVars>>
exceptRun == <<firstVars, strataVars, trustVars, rankVars, textVars,
    overlapVars,
    extractVars,
    indexVars,
    minerVars,
    authVars,
    piVars>>
exceptStrata == <<firstVars, runVars, trustVars, rankVars, textVars,
    overlapVars,
    extractVars,
    indexVars,
    minerVars,
    authVars,
    piVars>>
exceptTrust == <<firstVars, runVars, strataVars, rankVars, textVars,
    overlapVars,
    extractVars,
    indexVars,
    minerVars,
    authVars,
    piVars>>
exceptRank == <<firstVars, runVars, strataVars, trustVars, textVars,
    overlapVars,
    extractVars,
    indexVars,
    minerVars,
    authVars,
    piVars>>
exceptText == <<firstVars, runVars, strataVars, trustVars, rankVars,
    overlapVars,
    extractVars,
    indexVars,
    minerVars,
    authVars,
    piVars>>
exceptOverlap == <<firstVars, runVars, strataVars, trustVars, rankVars,
    textVars,
    extractVars,
    indexVars,
    minerVars,
    authVars,
    piVars>>
exceptExtract == <<firstVars, runVars, strataVars, trustVars, rankVars,
    textVars, overlapVars,
    indexVars,
    minerVars,
    authVars,
    piVars>>
exceptIndex == <<firstVars, runVars, strataVars, trustVars, rankVars,
    textVars, overlapVars, extractVars,
    minerVars,
    authVars,
    piVars>>
exceptMiner == <<firstVars, runVars, strataVars, trustVars, rankVars,
    textVars, overlapVars, extractVars, indexVars,
    authVars,
    piVars>>
exceptAuth == <<firstVars, runVars, strataVars, trustVars, rankVars,
    textVars, overlapVars, extractVars, indexVars,
    minerVars,
    piVars>>
exceptPi == <<firstVars, runVars, strataVars, trustVars, rankVars,
    textVars, overlapVars, extractVars, indexVars,
    minerVars, authVars>>

NoValue == "none"

\* ------------------------------------------------------------------ bounds
MaxSessions  == 3   \* sessions per split
MaxStartTime == 3   \* distinct startedAt ranks
MaxSliceEpisodes == 3  \* episodes on each side of the holdout
MaxEpisodes == 3    \* episodes handed to the pair builder
MaxPairs == 2       \* pairs of one stratum

\* ----------------------------------------------------------- small helpers
Min(a, b) == IF a < b THEN a ELSE b
Max(a, b) == IF a > b THEN a ELSE b

Range(s) == { s[i] : i \in 1..Len(s) }

\* Array.prototype.slice(from, to) with 0-based from (inclusive), to (exclusive)
Slice(s, from, to) == SubSeq(s, from + 1, to)

\* ---------------------------------------------------- chronological split
SessionIds == 1..MaxSessions
StartTimes == 1..MaxStartTime

\* evalRatio in hundredths, including values outside [0.05, 0.95] and [0, 1]
EvalRatios == {-20, 0, 5, 30, 50, 95, 100, 150}

\* mutant of CompareSessions: orders by sessionId alone
CompareSessionsIdOnly(left, right) ==
    IF left.sessionId < right.sessionId THEN -1
    ELSE IF left.sessionId > right.sessionId THEN 1
    ELSE 0

\* the comparator of sortSessionsByStart: -1, 0 or 1
CompareSessions(left, right) ==
    IF left.startedAt < right.startedAt THEN -1
    ELSE IF left.startedAt > right.startedAt THEN 1
    ELSE IF left.sessionId < right.sessionId THEN -1
    ELSE IF left.sessionId > right.sessionId THEN 1
    ELSE 0

\* position at which a stable sort places x among the already sorted s
RECURSIVE InsertSession(_, _)
InsertSession(s, x) ==
    IF s = <<>> THEN <<x>>
    ELSE IF CompareSessions(x, Head(s)) < 0 THEN <<x>> \o s
    ELSE <<Head(s)>> \o InsertSession(Tail(s), x)

\* [...summaries].sort(comparator): a stable sort of a copy
RECURSIVE sortSessionsByStart(_)
sortSessionsByStart(summaries) ==
    IF summaries = <<>> THEN <<>>
    ELSE InsertSession(sortSessionsByStart(SubSeq(summaries, 1, Len(summaries) - 1)),
                       summaries[Len(summaries)])

\* mutant of RoundHundredths: Math.floor
RoundHundredthsDown(x) == x \div 100

\* Math.round(n * ratio) for n * ratio >= 0, ratio in hundredths
RoundHundredths(x) == (x + 50) \div 100

\* mutant of splitSessionsChronologically: no special case for fewer than two
\* sessions and no cap of the eval count at n - 1
splitSessionsChronologicallyUncapped(input, evalRatio) ==
    LET sorted == sortSessionsByStart(input)
        normalizedRatio == Max(5, Min(95, evalRatio))
        targetEvalCount == Max(1, RoundHundredths(Len(sorted) * normalizedRatio))
        evalCount       == Min(Len(sorted), targetEvalCount)
    IN  [trainSessions |-> Slice(sorted, 0, Len(sorted) - evalCount),
         evalSessions  |-> Slice(sorted, Len(sorted) - evalCount, Len(sorted)),
         evalRatio     |-> normalizedRatio]

\* mutant of splitSessionsChronologically: the eval slice starts one session
\* early
splitSessionsChronologicallyOverlapping(input, evalRatio) ==
    LET sorted == sortSessionsByStart(input)
        normalizedRatio == Max(5, Min(95, evalRatio))
        targetEvalCount == Max(1, RoundHundredths(Len(sorted) * normalizedRatio))
        evalCount       == Min(Len(sorted) - 1, targetEvalCount)
    IN  IF Len(sorted) <= 1
        THEN [trainSessions |-> sorted,
              evalSessions  |-> <<>>,
              evalRatio     |-> Max(0, Min(100, evalRatio))]
        ELSE [trainSessions |-> Slice(sorted, 0, Len(sorted) - evalCount),
              evalSessions  |-> Slice(sorted, Len(sorted) - evalCount - 1, Len(sorted)),
              evalRatio     |-> normalizedRatio]

splitSessionsChronologically(input, evalRatio) ==
    LET sorted == sortSessionsByStart(input)
    IN  IF Len(sorted) <= 1
        THEN [trainSessions |-> sorted,
              evalSessions  |-> <<>>,
              evalRatio     |-> Max(0, Min(100, evalRatio))]
        ELSE LET normalizedRatio == Max(5, Min(95, evalRatio))
                 targetEvalCount == Max(1, RoundHundredths(Len(sorted) * normalizedRatio))
                 evalCount       == Min(Len(sorted) - 1, targetEvalCount)
             IN  [trainSessions |-> Slice(sorted, 0, Len(sorted) - evalCount),
                  evalSessions  |-> Slice(sorted, Len(sorted) - evalCount, Len(sorted)),
                  evalRatio     |-> normalizedRatio]

\* ------------------------------------------------- family-disjoint slice
\* family signatures (normalized failure commands)
Families == {"npm run test", "git push", "pytest -q"}

FamilySet(eps) == { eps[i].familySignature : i \in 1..Len(eps) }

\* mutant of buildFamilyDisjointEvalSlice: only the first train episode's
\* family is treated as seen
buildFamilyDisjointEvalSliceFirstOnly(train, eval) ==
    LET trainFamilies == IF train = <<>> THEN {} ELSE {train[1].familySignature}
        kept == SelectSeq(eval, LAMBDA e : e.familySignature \notin trainFamilies)
    IN  [episodes |-> kept,
         stats |-> [removedEpisodeCount     |-> Len(eval) - Len(kept),
                    removedEvalFamilyCount  |-> Cardinality(FamilySet(eval) \cap trainFamilies),
                    disjointEvalFamilyCount |-> Cardinality(FamilySet(kept))]]

\* 4.5: the set of family signatures present in train; every eval episode
\* whose signature is in it is removed; the three counts are reported
buildFamilyDisjointEvalSlice(train, eval) ==
    LET trainFamilies == FamilySet(train)
        kept == SelectSeq(eval, LAMBDA e : e.familySignature \notin trainFamilies)
    IN  [episodes |-> kept,
         stats |-> [removedEpisodeCount     |-> Len(eval) - Len(kept),
                    removedEvalFamilyCount  |-> Cardinality(FamilySet(eval) \cap trainFamilies),
                    disjointEvalFamilyCount |-> Cardinality(FamilySet(kept))]]

\* ---------------------------------------------------------- pair builder
PairSessionIds == {"session-a", "session-b"}
PairFamilies   == {"npm run test", "git push"}

\* wall time and token count of an episode's outcome
EpisodeSizes == { [wallTimeMs |-> 1000, tokenCount |-> 100],
                  [wallTimeMs |-> 5000, tokenCount |-> 100],
                  [wallTimeMs |-> 1000, tokenCount |-> 500] }

\* {minOccurrencesPerFamily, requireCrossSession, maxWallTimeRatio?,
\*  maxTokenCountRatio?}; an optional bound is the set of its values ({} when
\* absent); at most one ratio bound is set at a time
PairingOptionSets ==
    { [minOccurrencesPerFamily |-> m, requireCrossSession |-> c,
       maxWallTimeRatio |-> r[1], maxTokenCountRatio |-> r[2]] :
         m \in {2, 3}, c \in BOOLEAN,
         r \in {<<{}, {}>>, <<{2}, {}>>, <<{}, {2}>>} }

\* mutant of EpisodesOfFamily: groups by the leading command of the signature
\* (every family of the model is a different command, so: one group)
EpisodesOfAnyFamily(eps, family) == Range(eps)

\* the group of a family signature
EpisodesOfFamily(eps, family) ==
    { e \in Range(eps) : e.familySignature = family }

\* a ratio bound rejects two values whose larger exceeds bound * smaller
WithinRatio(a, b, bound) ==
    \A r \in bound : Max(a, b) <= r * Min(a, b)

\* mutant of CompatibleEpisodes: requireCrossSession is not consulted
CompatibleEpisodesAnySession(off, on, opts) ==
    /\ WithinRatio(off.wallTimeMs, on.wallTimeMs, opts.maxWallTimeRatio)
    /\ WithinRatio(off.tokenCount, on.tokenCount, opts.maxTokenCountRatio)

\* whether an on candidate may be paired with an off episode
CompatibleEpisodes(off, on, opts) ==
    /\ opts.requireCrossSession => off.sessionId # on.sessionId
    /\ WithinRatio(off.wallTimeMs, on.wallTimeMs, opts.maxWallTimeRatio)
    /\ WithinRatio(off.tokenCount, on.tokenCount, opts.maxTokenCountRatio)

\* the earliest-observed episode of a non-empty set (ties by id)
Earliest(S) ==
    CHOOSE e \in S : \A o \in S :
        \/ e.startedAt < o.startedAt
        \/ (e.startedAt = o.startedAt /\ e.id <= o.id)

MakePair(off, on) ==
    [familySignature |-> off.familySignature,
     offEpisodeId |-> off.id,          onEpisodeId |-> on.id,
     offSessionId |-> off.sessionId,   onSessionId |-> on.sessionId,
     offStartedAt |-> off.startedAt,   onStartedAt |-> on.startedAt,
     wallTimeOffMs |-> off.wallTimeMs, wallTimeOnMs |-> on.wallTimeMs,
     tokenCountOff |-> off.tokenCount, tokenCountOn |-> on.tokenCount]

\* mutant of PairFamily: the on episode stays available after it is paired
RECURSIVE PairFamilyOnReused(_, _)
PairFamilyOnReused(remaining, opts) ==
    IF remaining = {} THEN <<>>
    ELSE LET off == Earliest(remaining)
             candidates == { e \in remaining \ {off} : CompatibleEpisodes(off, e, opts) }
         IN  IF candidates = {}
             THEN PairFamilyOnReused(remaining \ {off}, opts)
             ELSE <<MakePair(off, Earliest(candidates))>>
                      \o PairFamilyOnReused(remaining \ {off}, opts)

\* nearest-available matching inside one family: the earliest unused episode
\* is the off episode, the chronologically nearest compatible unused later
\* episode is its on episode, and both are consumed
RECURSIVE PairFamily(_, _)
PairFamily(remaining, opts) ==
    IF remaining = {} THEN <<>>
    ELSE LET off == Earliest(remaining)
             candidates == { e \in remaining \ {off} : CompatibleEpisodes(off, e, opts) }
         IN  IF candidates = {}
             THEN PairFamily(remaining \ {off}, opts)
             ELSE LET on == Earliest(candidates)
                  IN  <<MakePair(off, on)>> \o PairFamily(remaining \ {off, on}, opts)

\* the family signatures of eps in order of first appearance
RECURSIVE FamilyOrder(_, _)
FamilyOrder(eps, seen) ==
    IF eps = <<>> THEN <<>>
    ELSE IF Head(eps).familySignature \in seen THEN FamilyOrder(Tail(eps), seen)
    ELSE <<Head(eps).familySignature>>
             \o FamilyOrder(Tail(eps), seen \cup {Head(eps).familySignature})

RECURSIVE PairEachFamily(_, _, _)
PairEachFamily(families, eps, opts) ==
    IF families = <<>> THEN <<>>
    ELSE LET group == EpisodesOfFamily(eps, Head(families))
         IN  (IF Cardinality(group) >= opts.minOccurrencesPerFamily
              THEN PairFamily(group, opts) ELSE <<>>)
                 \o PairEachFamily(Tail(families), eps, opts)

\* 4.2 buildPairs(episodes, options)
buildPairs(eps, opts) == PairEachFamily(FamilyOrder(eps, {}), eps, opts)

\* ------------------------------------------------------------ fractions
\* the JavaScript quotient a / b, kept exact
Frac(a, b) == [num |-> a, den |-> b]

FracOfInt(n) == Frac(n, 1)

\* x - y
FracMinus(x, y) == Frac(x.num * y.den - y.num * x.den, x.den * y.den)

\* -x
FracNeg(x) == Frac(-x.num, x.den)

\* x < y and x <= y for positive denominators
FracLess(x, y) == x.num * y.den < y.num * x.den
FracLeq(x, y)  == x.num * y.den <= y.num * x.den

Abs(n) == IF n < 0 THEN -n ELSE n

\* Number.prototype.toFixed(3): the nearest multiple of 0.001 (a tie goes away
\* from zero), as an integer number of thousandths
ToFixed3(x) ==
    LET n == Abs(x.num)
        q == (2000 * n + x.den) \div (2 * x.den)
    IN  IF x.num < 0 THEN -q ELSE q

\* --------------------------------------------------- stratum aggregation
AggFamilies == {"npm run test", "git push"}

\* outcome metrics an off or on episode contributes to its pair: no retries
\* and no metrics; benign and harmful retries; a failed recovery with an
\* abstained retry; abstained retries outnumbering the counted retries
EpisodeOutcomes ==
    { [totalRetries |-> 0, harmfulRetries |-> 0, benignRetries |-> 0,
       abstainedRetries |-> 0, wallTimeMs |-> 0, tokenCount |-> 0,
       tokenProxy |-> 0, costUsd |-> 0, success |-> TRUE],
      [totalRetries |-> 2, harmfulRetries |-> 1, benignRetries |-> 1,
       abstainedRetries |-> 0, wallTimeMs |-> 2, tokenCount |-> 0,
       tokenProxy |-> 2, costUsd |-> 1, success |-> TRUE],
      [totalRetries |-> 3, harmfulRetries |-> 2, benignRetries |-> 0,
       abstainedRetries |-> 1, wallTimeMs |-> 1, tokenCount |-> 4,
       tokenProxy |-> 3, costUsd |-> 2, success |-> FALSE],
      [totalRetries |-> 1, harmfulRetries |-> 0, benignRetries |-> 0,
       abstainedRetries |-> 2, wallTimeMs |-> 5, tokenCount |-> 0,
       tokenProxy |-> 1, costUsd |-> 0, success |-> FALSE] }

\* a TrajectoryPairLike built from the outcomes of its two episodes
TrajectoryPair(family, off, on) ==
    [familySignature |-> family,
     offSessionId |-> "session-a",            onSessionId |-> "session-b",
     totalRetriesOff |-> off.totalRetries,    totalRetriesOn |-> on.totalRetries,
     harmfulRetriesOff |-> off.harmfulRetries, harmfulRetriesOn |-> on.harmfulRetries,
     benignRetriesOff |-> off.benignRetries,  benignRetriesOn |-> on.benignRetries,
     abstainedRetriesOff |-> off.abstainedRetries,
     abstainedRetriesOn |-> on.abstainedRetries,
     wallTimeOffMs |-> off.wallTimeMs,        wallTimeOnMs |-> on.wallTimeMs,
     tokenCountOff |-> off.tokenCount,        tokenCountOn |-> on.tokenCount,
     tokenProxyOff |-> off.tokenProxy,        tokenProxyOn |-> on.tokenProxy,
     costOffUsd |-> off.costUsd,              costOnUsd |-> on.costUsd,
     successOff |-> off.success,              successOn |-> on.success]

\* pairs.reduce((sum, pair) => sum + pair[field], 0)
RECURSIVE SumField(_, _)
SumField(ps, field) ==
    IF ps = <<>> THEN 0
    ELSE SumField(SubSeq(ps, 1, Len(ps) - 1), field) + ps[Len(ps)][field]

\* pairs.filter((pair) => pair[field]).length
CountField(ps, field) == Len(SelectSeq(ps, LAMBDA p : p[field]))

\* mutant of relativeReduction: on is subtracted from, not off
relativeReductionSwapped(off, on) ==
    IF off <= 0 THEN (IF on <= 0 THEN FracOfInt(0) ELSE FracOfInt(-1))
    ELSE Frac(on - off, off)

\* mutant of relativeReduction: a zero baseline always reports 0
relativeReductionZeroBaseline(off, on) ==
    IF off <= 0 THEN FracOfInt(0)
    ELSE Frac(off - on, off)

relativeReduction(off, on) ==
    IF off <= 0 THEN (IF on <= 0 THEN FracOfInt(0) ELSE FracOfInt(-1))
    ELSE Frac(off - on, off)

\* mutant of StratumJudgeableCoverage: Math.max(0, ...) is left out
StratumJudgeableCoverageUnclamped(totalRetries, totalAbstainedRetries) ==
    IF totalRetries = 0 THEN FracOfInt(0)
    ELSE Frac(totalRetries - totalAbstainedRetries, totalRetries)

\* judgeableCoverageOff / judgeableCoverageOn of the stratum aggregate
StratumJudgeableCoverage(totalRetries, totalAbstainedRetries) ==
    IF totalRetries = 0 THEN FracOfInt(0)
    ELSE Frac(Max(0, totalRetries - totalAbstainedRetries), totalRetries)

\* mutant of PerPair: an empty pair list reports 1
PerPairUnitWhenEmpty(count, totalPairs) ==
    IF totalPairs = 0 THEN FracOfInt(1) ELSE Frac(count, totalPairs)

\* count / totalPairs, 0 for no pair
PerPair(count, totalPairs) ==
    IF totalPairs = 0 THEN FracOfInt(0) ELSE Frac(count, totalPairs)

aggregateTrajectoryPairsForStratum(ps) ==
    LET totalPairs               == Len(ps)
        totalRetriesOff          == SumField(ps, "totalRetriesOff")
        totalRetriesOn           == SumField(ps, "totalRetriesOn")
        totalHarmfulRetriesOff   == SumField(ps, "harmfulRetriesOff")
        totalHarmfulRetriesOn    == SumField(ps, "harmfulRetriesOn")
        totalBenignRetriesOff    == SumField(ps, "benignRetriesOff")
        totalBenignRetriesOn     == SumField(ps, "benignRetriesOn")
        totalAbstainedRetriesOff == SumField(ps, "abstainedRetriesOff")
        totalAbstainedRetriesOn  == SumField(ps, "abstainedRetriesOn")
        totalWallTimeOffMs       == SumField(ps, "wallTimeOffMs")
        totalWallTimeOnMs        == SumField(ps, "wallTimeOnMs")
        totalTokenCountOff       == SumField(ps, "tokenCountOff")
        totalTokenCountOn        == SumField(ps, "tokenCountOn")
        totalTokenProxyOff       == SumField(ps, "tokenProxyOff")
        totalTokenProxyOn        == SumField(ps, "tokenProxyOn")
        totalCostOffUsd          == SumField(ps, "costOffUsd")
        totalCostOnUsd           == SumField(ps, "costOnUsd")
        successOffCount          == CountField(ps, "successOff")
        successOnCount           == CountField(ps, "successOn")
        recoverySuccessRateOff   == PerPair(successOffCount, totalPairs)
        recoverySuccessRateOn    == PerPair(successOnCount, totalPairs)
    IN  [totalPairs |-> totalPairs,
         totalRetriesOff |-> totalRetriesOff,
         totalRetriesOn |-> totalRetriesOn,
         totalHarmfulRetriesOff |-> totalHarmfulRetriesOff,
         totalHarmfulRetriesOn |-> totalHarmfulRetriesOn,
         totalBenignRetriesOff |-> totalBenignRetriesOff,
         totalBenignRetriesOn |-> totalBenignRetriesOn,
         totalAbstainedRetriesOff |-> totalAbstainedRetriesOff,
         totalAbstainedRetriesOn |-> totalAbstainedRetriesOn,
         harmfulRetryRateOff |-> PerPair(totalHarmfulRetriesOff, totalPairs),
         harmfulRetryRateOn |-> PerPair(totalHarmfulRetriesOn, totalPairs),
         judgeableCoverageOff |->
             StratumJudgeableCoverage(totalRetriesOff, totalAbstainedRetriesOff),
         judgeableCoverageOn |->
             StratumJudgeableCoverage(totalRetriesOn, totalAbstainedRetriesOn),
         recoverySuccessRateOff |-> recoverySuccessRateOff,
         recoverySuccessRateOn |-> recoverySuccessRateOn,
         totalWallTimeOffMs |-> totalWallTimeOffMs,
         totalWallTimeOnMs |-> totalWallTimeOnMs,
         totalTokenCountOff |-> totalTokenCountOff,
         totalTokenCountOn |-> totalTokenCountOn,
         totalTokenProxyOff |-> totalTokenProxyOff,
         totalTokenProxyOn |-> totalTokenProxyOn,
         totalCostOffUsd |-> totalCostOffUsd,
         totalCostOnUsd |-> totalCostOnUsd,
         relativeHarmfulRetryReduction |->
             relativeReduction(totalHarmfulRetriesOff, totalHarmfulRetriesOn),
         relativeWallTimeReduction |->
             relativeReduction(totalWallTimeOffMs, totalWallTimeOnMs),
         relativeTokenCountReduction |->
             relativeReduction(totalTokenCountOff, totalTokenCountOn),
         relativeTokenProxyReduction |->
             relativeReduction(totalTokenProxyOff, totalTokenProxyOn),
         absoluteRecoverySuccessRateDelta |->
             FracMinus(recoverySuccessRateOn, recoverySuccessRateOff)]

\* ------------------------------------------------------- gate evaluation
\* TrajectoryStratumThresholds: lenient, intermediate and strict settings
ThresholdSets ==
    { [minPairCount |-> 0,
       minRelativeHarmfulRetryReduction |-> FracOfInt(-5),
       minRelativeWallTimeReduction |-> FracOfInt(-5),
       minRelativeTokenCountReduction |-> FracOfInt(-5),
       minRecoverySuccessRateOn |-> FracOfInt(0),
       maxRecoverySuccessRateDrop |-> FracOfInt(1),
       minJudgeableCoverage |-> FracOfInt(0)],
      [minPairCount |-> 1,
       minRelativeHarmfulRetryReduction |-> FracOfInt(0),
       minRelativeWallTimeReduction |-> FracOfInt(-1),
       minRelativeTokenCountReduction |-> Frac(1, 5),
       minRecoverySuccessRateOn |-> Frac(1, 2),
       maxRecoverySuccessRateDrop |-> Frac(1, 2),
       minJudgeableCoverage |-> Frac(1, 2)],
      [minPairCount |-> 2,
       minRelativeHarmfulRetryReduction |-> Frac(1, 2),
       minRelativeWallTimeReduction |-> Frac(1, 2),
       minRelativeTokenCountReduction |-> Frac(1, 2),
       minRecoverySuccessRateOn |-> FracOfInt(1),
       maxRecoverySuccessRateDrop |-> FracOfInt(0),
       minJudgeableCoverage |-> FracOfInt(1)] }

\* a failure reason: the text before the numbers, the observed value and the
\* bound (thousandths where the source formats with toFixed(3))
Failure(check, observed, bound) ==
    [check |-> check, observed |-> observed, bound |-> bound]

\* if (violated) { failures.push(reason) }
PushIf(violated, reason) == IF violated THEN <<reason>> ELSE <<>>

\* mutant of evaluateTrajectoryGateForStratum: returns at the first failure
evaluateTrajectoryGateShortCircuit(agg, th) ==
    LET all ==
              PushIf(agg.totalPairs < th.minPairCount,
                     Failure("pair count", agg.totalPairs, th.minPairCount))
           \o PushIf(FracLess(agg.relativeHarmfulRetryReduction,
                              th.minRelativeHarmfulRetryReduction),
                     Failure("harmful retry reduction",
                             ToFixed3(agg.relativeHarmfulRetryReduction),
                             ToFixed3(th.minRelativeHarmfulRetryReduction)))
           \o PushIf(FracLess(agg.relativeWallTimeReduction,
                              th.minRelativeWallTimeReduction),
                     Failure("wall-time reduction",
                             ToFixed3(agg.relativeWallTimeReduction),
                             ToFixed3(th.minRelativeWallTimeReduction)))
           \o PushIf(FracLess(agg.relativeTokenCountReduction,
                              th.minRelativeTokenCountReduction),
                     Failure("token-count reduction",
                             ToFixed3(agg.relativeTokenCountReduction),
                             ToFixed3(th.minRelativeTokenCountReduction)))
           \o PushIf(FracLess(agg.recoverySuccessRateOn, th.minRecoverySuccessRateOn),
                     Failure("recovery success on",
                             ToFixed3(agg.recoverySuccessRateOn),
                             ToFixed3(th.minRecoverySuccessRateOn)))
           \o PushIf(FracLess(agg.absoluteRecoverySuccessRateDelta,
                              FracNeg(th.maxRecoverySuccessRateDrop)),
                     Failure("recovery success drop",
                             ToFixed3(FracNeg(agg.absoluteRecoverySuccessRateDelta)),
                             ToFixed3(th.maxRecoverySuccessRateDrop)))
           \o PushIf(FracLess(agg.judgeableCoverageOff, th.minJudgeableCoverage),
                     Failure("judgeable coverage off",
                             ToFixed3(agg.judgeableCoverageOff),
                             ToFixed3(th.minJudgeableCoverage)))
           \o PushIf(FracLess(agg.judgeableCoverageOn, th.minJudgeableCoverage),
                     Failure("judgeable coverage on",
                             ToFixed3(agg.judgeableCoverageOn),
                             ToFixed3(th.minJudgeableCoverage)))
        failures == IF all = <<>> THEN <<>> ELSE <<Head(all)>>
    IN  [pass |-> Len(failures) = 0, failures |-> failures]

evaluateTrajectoryGateForStratum(agg, th) ==
    LET failures ==
              PushIf(agg.totalPairs < th.minPairCount,
                     Failure("pair count", agg.totalPairs, th.minPairCount))
           \o PushIf(FracLess(agg.relativeHarmfulRetryReduction,
                              th.minRelativeHarmfulRetryReduction),
                     Failure("harmful retry reduction",
                             ToFixed3(agg.relativeHarmfulRetryReduction),
                             ToFixed3(th.minRelativeHarmfulRetryReduction)))
           \o PushIf(FracLess(agg.relativeWallTimeReduction,
                              th.minRelativeWallTimeReduction),
                     Failure("wall-time reduction",
                             ToFixed3(agg.relativeWallTimeReduction),
                             ToFixed3(th.minRelativeWallTimeReduction)))
           \o PushIf(FracLess(agg.relativeTokenCountReduction,
                              th.minRelativeTokenCountReduction),
                     Failure("token-count reduction",
                             ToFixed3(agg.relativeTokenCountReduction),
                             ToFixed3(th.minRelativeTokenCountReduction)))
           \o PushIf(FracLess(agg.recoverySuccessRateOn, th.minRecoverySuccessRateOn),
                     Failure("recovery success on",
                             ToFixed3(agg.recoverySuccessRateOn),
                             ToFixed3(th.minRecoverySuccessRateOn)))
           \o PushIf(FracLess(agg.absoluteRecoverySuccessRateDelta,
                              FracNeg(th.maxRecoverySuccessRateDrop)),
                     Failure("recovery success drop",
                             ToFixed3(FracNeg(agg.absoluteRecoverySuccessRateDelta)),
                             ToFixed3(th.maxRecoverySuccessRateDrop)))
           \o PushIf(FracLess(agg.judgeableCoverageOff, th.minJudgeableCoverage),
                     Failure("judgeable coverage off",
                             ToFixed3(agg.judgeableCoverageOff),
                             ToFixed3(th.minJudgeableCoverage)))
           \o PushIf(FracLess(agg.judgeableCoverageOn, th.minJudgeableCoverage),
                     Failure("judgeable coverage on",
                             ToFixed3(agg.judgeableCoverageOn),
                             ToFixed3(th.minJudgeableCoverage)))
    IN  [pass |-> Len(failures) = 0, failures |-> failures]

\* ------------------------------------------------- debug report: families
\* sha256(familySignature), first 16 hex characters: an opaque digest, equal
\* for equal signatures
debugFamilyId(familySignature) == <<"sha256/16", familySignature>>

safeRelativeReduction(off, on) ==
    IF off <= 0 THEN (IF on <= 0 THEN FracOfInt(0) ELSE FracOfInt(-1))
    ELSE Frac(off - on, off)

\* judgeableCoverage.off / .on of a debug family
DebugJudgeableCoverage(totalRetries, abstainedRetries) ==
    LET judgeableRetries == Max(0, totalRetries - abstainedRetries)
    IN  IF totalRetries <= 0 THEN FracOfInt(1)
        ELSE Frac(judgeableRetries, totalRetries)

\* the family ids of the pairs in Map insertion order
RECURSIVE FamilyIdOrder(_, _)
FamilyIdOrder(ps, seen) ==
    IF ps = <<>> THEN <<>>
    ELSE LET id == debugFamilyId(Head(ps).familySignature)
         IN  IF id \in seen THEN FamilyIdOrder(Tail(ps), seen)
             ELSE <<id>> \o FamilyIdOrder(Tail(ps), seen \cup {id})

\* one entry of `families` in buildTrajectoryLaneDebug
DebugFamily(ps, familyId) ==
    LET mine == SelectSeq(ps, LAMBDA p : debugFamilyId(p.familySignature) = familyId)
        totals ==
            [totalRetriesOff |-> SumField(mine, "totalRetriesOff"),
             totalRetriesOn |-> SumField(mine, "totalRetriesOn"),
             harmfulRetriesOff |-> SumField(mine, "harmfulRetriesOff"),
             harmfulRetriesOn |-> SumField(mine, "harmfulRetriesOn"),
             benignRetriesOff |-> SumField(mine, "benignRetriesOff"),
             benignRetriesOn |-> SumField(mine, "benignRetriesOn"),
             abstainedRetriesOff |-> SumField(mine, "abstainedRetriesOff"),
             abstainedRetriesOn |-> SumField(mine, "abstainedRetriesOn"),
             wallTimeOffMs |-> SumField(mine, "wallTimeOffMs"),
             wallTimeOnMs |-> SumField(mine, "wallTimeOnMs"),
             tokenCountOff |-> SumField(mine, "tokenCountOff"),
             tokenCountOn |-> SumField(mine, "tokenCountOn"),
             tokenProxyOff |-> SumField(mine, "tokenProxyOff"),
             tokenProxyOn |-> SumField(mine, "tokenProxyOn"),
             costOffUsd |-> SumField(mine, "costOffUsd"),
             costOnUsd |-> SumField(mine, "costOnUsd")]
    IN  [familyId |-> familyId,
         pairCount |-> Len(mine),
         totals |-> totals,
         judgeableCoverage |->
             [off |-> DebugJudgeableCoverage(totals.totalRetriesOff,
                                             totals.abstainedRetriesOff),
              on |-> DebugJudgeableCoverage(totals.totalRetriesOn,
                                            totals.abstainedRetriesOn)],
         deltas |->
             [relativeHarmfulRetryReduction |->
                  safeRelativeReduction(totals.harmfulRetriesOff, totals.harmfulRetriesOn),
              relativeWallTimeReduction |->
                  safeRelativeReduction(totals.wallTimeOffMs, totals.wallTimeOnMs),
              relativeTokenCountReduction |->
                  safeRelativeReduction(totals.tokenCountOff, totals.tokenCountOn)]]

\* `families` of buildTrajectoryLaneDebug, before ranking and truncation
DebugFamilies(ps) ==
    LET order == FamilyIdOrder(ps, {})
    IN  [i \in 1..Len(order) |-> DebugFamily(ps, order[i])]

\* ------------------------------------------------ overall gate, exit code
MaxOverlapEpisodes == 2   \* episodes on each side handed to summarizeFamilyOverlap
MaxLanePairs == 2         \* pairs of the family-disjoint lane

\* position of a family signature in the default Array.prototype.sort order
FamilyRank(f) ==
    CASE f = "git push" -> 1
      [] f = "npm run test" -> 2
      [] f = "pytest -q" -> 3

\* [...S].sort()
RECURSIVE SortFamilies(_)
SortFamilies(S) ==
    IF S = {} THEN <<>>
    ELSE LET first == CHOOSE f \in S : \A g \in S : FamilyRank(f) <= FamilyRank(g)
         IN  <<first>> \o SortFamilies(S \ {first})

\* mutant of summarizeFamilyOverlap: the rate is taken over the train families
summarizeFamilyOverlapByTrain(train, eval) ==
    LET trainFamilies == FamilySet(train)
        evalFamilies  == FamilySet(eval)
        overlappingFamilies == { f \in evalFamilies : f \in trainFamilies }
        byTrain == IF Cardinality(trainFamilies) = 0 THEN FracOfInt(0)
                   ELSE Frac(Cardinality(overlappingFamilies),
                             Cardinality(trainFamilies))
    IN  [trainFamilyCount |-> Cardinality(trainFamilies),
         evalFamilyCount |-> Cardinality(evalFamilies),
         overlappingFamilyCount |-> Cardinality(overlappingFamilies),
         overlapRateByEvalFamilies |-> byTrain,
         overlapRateByTrainFamilies |-> byTrain,
         overlappingFamilies |-> SortFamilies(overlappingFamilies)]

summarizeFamilyOverlap(train, eval) ==
    LET trainFamilies == FamilySet(train)
        evalFamilies  == FamilySet(eval)
        overlappingFamilies == { f \in evalFamilies : f \in trainFamilies }
    IN  [trainFamilyCount |-> Cardinality(trainFamilies),
         evalFamilyCount |-> Cardinality(evalFamilies),
         overlappingFamilyCount |-> Cardinality(overlappingFamilies),
         overlapRateByEvalFamilies |->
             IF Cardinality(evalFamilies) = 0 THEN FracOfInt(0)
             ELSE Frac(Cardinality(overlappingFamilies), Cardinality(evalFamilies)),
         overlapRateByTrainFamilies |->
             IF Cardinality(trainFamilies) = 0 THEN FracOfInt(0)
             ELSE Frac(Cardinality(overlappingFamilies), Cardinality(trainFamilies)),
         overlappingFamilies |-> SortFamilies(overlappingFamilies)]

\* episode lists of at most n episodes (only the family signature is read)
OverlapEpisodeLists(n) ==
    UNION { [1..k -> [familySignature : Families]] : k \in 0..n }

\* the gate and exit options of ParsedOptions; an absent
\* maxOverlapRateByEvalFamilies is the empty set
RunOptionSets ==
    [primaryLane : {"full_eval", "family_disjoint_eval"},
     minFamilyDisjointPairCount : {0, 2},
     maxOverlapRateByEvalFamilies : {{}, {FracOfInt(0)}, {Frac(1, 2)}},
     strictNoFamilyOverlap : BOOLEAN,
     strict : BOOLEAN]

\* gate results a lane report can carry: passed, or failed with its reasons
LaneGateResults ==
    { [pass |-> TRUE, failures |-> <<>>],
      [pass |-> FALSE,
       failures |-> <<Failure("pair count", 0, 1),
                      Failure("judgeable coverage on", 0, 500)>>] }

\* mutant of overallGate: the family-disjoint pair count is only enforced
\* when the family-disjoint lane is primary
overallGatePrimaryOnly(opts, lanes, overlap) ==
    LET primaryLaneReport == lanes[opts.primaryLane]
        cap == opts.maxOverlapRateByEvalFamilies
        overlapRatePass ==
            \/ cap = {}
            \/ \A c \in cap : FracLeq(overlap.overlapRateByEvalFamilies, c)
        familyDisjointPairCount == lanes["family_disjoint_eval"].totalPairs
        familyDisjointPairCountPass ==
            \/ opts.primaryLane # "family_disjoint_eval"
            \/ familyDisjointPairCount >= opts.minFamilyDisjointPairCount
        gateFailures ==
               primaryLaneReport.gateResult.failures
            \o (IF ~overlapRatePass /\ cap # {}
                THEN <<Failure("family overlap rate",
                               ToFixed3(overlap.overlapRateByEvalFamilies),
                               ToFixed3(CHOOSE c \in cap : TRUE))>>
                ELSE <<>>)
            \o PushIf(~familyDisjointPairCountPass,
                      Failure("family-disjoint pair count", familyDisjointPairCount,
                              opts.minFamilyDisjointPairCount))
    IN  [pass |-> /\ primaryLaneReport.gateResult.pass
                  /\ overlapRatePass
                  /\ familyDisjointPairCountPass,
         failures |-> gateFailures]

\* the gateResult of the run payload, folded from the primary lane's gate, the
\* overlap-rate cap and the family-disjoint pair count
overallGate(opts, lanes, overlap) ==
    LET primaryLaneReport == lanes[opts.primaryLane]
        cap == opts.maxOverlapRateByEvalFamilies
        overlapRatePass ==
            \/ cap = {}
            \/ \A c \in cap : FracLeq(overlap.overlapRateByEvalFamilies, c)
        familyDisjointPairCount == lanes["family_disjoint_eval"].totalPairs
        familyDisjointPairCountPass ==
            familyDisjointPairCount >= opts.minFamilyDisjointPairCount
        gateFailures ==
               primaryLaneReport.gateResult.failures
            \o (IF ~overlapRatePass /\ cap # {}
                THEN <<Failure("family overlap rate",
                               ToFixed3(overlap.overlapRateByEvalFamilies),
                               ToFixed3(CHOOSE c \in cap : TRUE))>>
                ELSE <<>>)
            \o PushIf(~familyDisjointPairCountPass,
                      Failure("family-disjoint pair count", familyDisjointPairCount,
                              opts.minFamilyDisjointPairCount))
    IN  [pass |-> /\ primaryLaneReport.gateResult.pass
                  /\ overlapRatePass
                  /\ familyDisjointPairCountPass,
         failures |-> gateFailures]

\* mutant of toExitCode: a later violated condition overwrites the code
toExitCodeLastWins(opts, familyOverlapCount, overlapRateByEvalFamilies, gatePass) ==
    LET afterOverlap ==
            IF opts.strictNoFamilyOverlap /\ familyOverlapCount > 0 THEN 3 ELSE 0
        afterRate ==
            IF /\ opts.maxOverlapRateByEvalFamilies # {}
               /\ \E c \in opts.maxOverlapRateByEvalFamilies :
                     FracLess(c, overlapRateByEvalFamilies)
            THEN 4
            ELSE afterOverlap
    IN  IF opts.strict /\ ~gatePass THEN 2 ELSE afterRate

toExitCode(opts, familyOverlapCount, overlapRateByEvalFamilies, gatePass) ==
    LET afterOverlap ==
            IF opts.strictNoFamilyOverlap /\ familyOverlapCount > 0 THEN 3 ELSE 0
        afterRate ==
            IF /\ opts.maxOverlapRateByEvalFamilies # {}
               /\ \E c \in opts.maxOverlapRateByEvalFamilies :
                     FracLess(c, overlapRateByEvalFamilies)
            THEN (IF afterOverlap = 0 THEN 4 ELSE afterOverlap)
            ELSE afterOverlap
    IN  IF opts.strict /\ ~gatePass
        THEN (IF afterRate = 0 THEN 2 ELSE afterRate)
        ELSE afterRate

\* ------------------------------------------------------------- strata
MaxStrataEpisodes == 3   \* episodes handed to buildTrajectoryStrata
MaxStrataPairs == 1      \* pairs handed to buildTrajectoryStrata

StrataSessionIds == {"session-a", "session-b"}

\* two families of the js toolchain and one of git
StrataFamilies == {"npm run test", "npx jest", "git push"}

\* sessionModelKeys: the resolved model key of every session
SessionModelKeys == ("session-a" :> "claude") @@ ("session-b" :> "gpt")

\* sessionModelKeys.get(sessionId) ?? "unknown"
ModelOfSession(sessionId, sessionModelKeys) ==
    IF sessionId \in DOMAIN sessionModelKeys THEN sessionModelKeys[sessionId]
    ELSE "unknown"

\* normalized.split(/\s+/, 1)[0]: the first word of a family signature
FirstWord(familySignature) ==
    CASE familySignature = "npm run test" -> "npm"
      [] familySignature = "npx jest" -> "npx"
      [] familySignature = "git push" -> "git"
      [] familySignature = "pytest -q" -> "pytest"
      [] OTHER -> ""

inferToolSurfaceKey(familySignature) ==
    LET command == FirstWord(familySignature)
    IN  IF command = "" THEN "other"
        ELSE IF command = "gcloud" THEN "cloud:gcloud"
        ELSE IF command = "gh" THEN "git:github_cli"
        ELSE IF command = "git" THEN "git"
        ELSE IF command = "terraform" THEN "infra:terraform"
        ELSE IF command = "pants" THEN "build:pants"
        ELSE IF command \in {"kubectl", "helm"} THEN "k8s"
        ELSE IF command = "docker" THEN "container:docker"
        ELSE IF command \in {"npm", "npx", "pnpm", "yarn", "node", "bun"}
             THEN "js-toolchain"
        ELSE IF command \in {"python", "python3", "pip", "pip3", "uv", "pytest"}
             THEN "python-toolchain"
        ELSE IF command \in {"go", "gofmt", "goimports"} THEN "go-toolchain"
        ELSE IF command \in {"curl", "wget", "http"} THEN "http-probe"
        ELSE IF command \in {"rg", "grep", "find", "ls", "bash", "zsh", "sh"}
             THEN "shell"
        ELSE "other"

\* A stratum key is held as the sequence of the parts it is concatenated
\* from: <<model>>, <<"mixed", m1, m2>> for `mixed:m1|m2`, <<surface>>, and
\* model parts \o <<"__", surface>> for `${modelKey}__${toolSurfaceKey}`.
\* rank of a part in the order of string comparison
PartRank(part) ==
    CASE part = "__" -> 0
      [] part = "claude" -> 1
      [] part = "git" -> 2
      [] part = "gpt" -> 3
      [] part = "js-toolchain" -> 4
      [] part = "mixed" -> 5
      [] part = "python-toolchain" -> 6
      [] part = "unknown" -> 7

\* left < right on the concatenated strings (no part used here is a prefix of
\* another, so the first differing part decides)
RECURSIVE KeyLess(_, _)
KeyLess(left, right) ==
    IF left = <<>> THEN right # <<>>
    ELSE IF right = <<>> THEN FALSE
    ELSE IF PartRank(Head(left)) < PartRank(Head(right)) THEN TRUE
    ELSE IF PartRank(Head(left)) > PartRank(Head(right)) THEN FALSE
    ELSE KeyLess(Tail(left), Tail(right))

\* mutant of modelKeyForPair: a pair is filed under the model of its off
\* session
modelKeyForPairOfOffSession(offSessionId, onSessionId, sessionModelKeys) ==
    <<ModelOfSession(offSessionId, sessionModelKeys)>>

modelKeyForPair(offSessionId, onSessionId, sessionModelKeys) ==
    LET offModel == ModelOfSession(offSessionId, sessionModelKeys)
        onModel  == ModelOfSession(onSessionId, sessionModelKeys)
    IN  IF offModel = onModel THEN <<offModel>>
        ELSE IF PartRank(offModel) < PartRank(onModel)
             THEN <<"mixed", offModel, onModel>>
             ELSE <<"mixed", onModel, offModel>>

StratumDimensions == {"model", "toolSurface", "modelToolSurface"}

StratumKey(dimension, modelKey, toolSurfaceKey) ==
    CASE dimension = "model" -> modelKey
      [] dimension = "toolSurface" -> <<toolSurfaceKey>>
      [] dimension = "modelToolSurface" -> modelKey \o <<"__", toolSurfaceKey>>

\* the key under which addEpisodeKey files an episode
EpisodeKey(dimension, episode, sessionModelKeys) ==
    StratumKey(dimension, <<ModelOfSession(episode.sessionId, sessionModelKeys)>>,
               inferToolSurfaceKey(episode.familySignature))

\* the key under which addPairKey files a pair
PairKey(dimension, pair, sessionModelKeys) ==
    StratumKey(dimension,
               modelKeyForPair(pair.offSessionId, pair.onSessionId, sessionModelKeys),
               inferToolSurfaceKey(pair.familySignature))

\* the distinct elements of a sequence in order of first appearance (the
\* iteration order of a Map's keys and of a Set)
RECURSIVE FirstAppearances(_, _)
FirstAppearances(s, seen) ==
    IF s = <<>> THEN <<>>
    ELSE IF Head(s) \in seen THEN FirstAppearances(Tail(s), seen)
    ELSE <<Head(s)>> \o FirstAppearances(Tail(s), seen \cup {Head(s)})

\* new Set([...episodeIds.keys(), ...pairs.keys()])
DimensionKeys(dimension, eps, ps, sessionModelKeys) ==
    FirstAppearances(
        [i \in 1..Len(eps) |-> EpisodeKey(dimension, eps[i], sessionModelKeys)]
        \o [i \in 1..Len(ps) |-> PairKey(dimension, ps[i], sessionModelKeys)], {})

\* mutant of StratumEpisodeIds: the episodes of a stratum are told apart by
\* their session
StratumEpisodeIdsBySession(dimension, key, eps, sessionModelKeys) ==
    { eps[i].sessionId : i \in { j \in 1..Len(eps) :
          EpisodeKey(dimension, eps[j], sessionModelKeys) = key } }

\* byDimension[dimension].episodeIds.get(key): the ids filed under the key
StratumEpisodeIds(dimension, key, eps, sessionModelKeys) ==
    { eps[i].id : i \in { j \in 1..Len(eps) :
          EpisodeKey(dimension, eps[j], sessionModelKeys) = key } }

StratumSessionIds(dimension, key, eps, sessionModelKeys) ==
    { eps[i].sessionId : i \in { j \in 1..Len(eps) :
          EpisodeKey(dimension, eps[j], sessionModelKeys) = key } }

\* one TrajectoryStratumSummary
StratumSummary(dimension, key, eps, ps, sessionModelKeys, th) ==
    LET stratumPs == SelectSeq(ps, LAMBDA p : PairKey(dimension, p, sessionModelKeys) = key)
        agg == aggregateTrajectoryPairsForStratum(stratumPs)
    IN  [key |-> key,
         pairCount |-> agg.totalPairs,
         episodeCount |->
             Cardinality(StratumEpisodeIds(dimension, key, eps, sessionModelKeys)),
         sessionCount |->
             Cardinality(StratumSessionIds(dimension, key, eps, sessionModelKeys)),
         aggregate |-> agg,
         gateResult |-> evaluateTrajectoryGateForStratum(agg, th)]

\* mutant of CompareStrata: only the pair count is compared
CompareStrataByPairCount(left, right) == right.pairCount - left.pairCount

\* the comparator of sortTrajectoryStrata
CompareStrata(left, right) ==
    IF right.pairCount # left.pairCount THEN right.pairCount - left.pairCount
    ELSE IF right.episodeCount # left.episodeCount
         THEN right.episodeCount - left.episodeCount
    ELSE IF KeyLess(left.key, right.key) THEN -1
    ELSE IF KeyLess(right.key, left.key) THEN 1
    ELSE 0

\* position at which a stable sort places x among the already sorted s
RECURSIVE InsertStratum(_, _)
InsertStratum(s, x) ==
    IF s = <<>> THEN <<x>>
    ELSE IF CompareStrata(x, Head(s)) < 0 THEN <<x>> \o s
    ELSE <<Head(s)>> \o InsertStratum(Tail(s), x)

\* [...strata].sort(comparator): a stable sort of a copy
RECURSIVE sortTrajectoryStrata(_)
sortTrajectoryStrata(summaries) ==
    IF summaries = <<>> THEN <<>>
    ELSE InsertStratum(sortTrajectoryStrata(SubSeq(summaries, 1, Len(summaries) - 1)),
                       summaries[Len(summaries)])

summarizeDimension(dimension, eps, ps, sessionModelKeys, th) ==
    LET keys == DimensionKeys(dimension, eps, ps, sessionModelKeys)
    IN  sortTrajectoryStrata(
            [i \in 1..Len(keys) |->
                StratumSummary(dimension, keys[i], eps, ps, sessionModelKeys, th)])

buildTrajectoryStrata(eps, ps, sessionModelKeys, th) ==
    [model |-> summarizeDimension("model", eps, ps, sessionModelKeys, th),
     toolSurface |-> summarizeDimension("toolSurface", eps, ps, sessionModelKeys, th),
     modelToolSurface |->
         summarizeDimension("modelToolSurface", eps, ps, sessionModelKeys, th)]

\* the pair of two episodes of one family: the earlier episode had two
\* retries, the later none
StrataPair(off, on) ==
    [offEpisodeId |-> off.id, onEpisodeId |-> on.id]
    @@ [TrajectoryPair(off.familySignature,
                       CHOOSE o \in EpisodeOutcomes : o.totalRetries = 2,
                       CHOOSE o \in EpisodeOutcomes : o.totalRetries = 0)
          EXCEPT !.offSessionId = off.sessionId, !.onSessionId = on.sessionId]

\* ------------------------------------------- bootstrap trust estimator
MaxTrustPairs == 2          \* pairs handed to the estimator
MaxBootstrapSamples == 3    \* largest requested bootstrapSamples

\* the pseudo-random generator: a linear congruential generator of full
\* period over 0..RandomModulus-1
RandomModulus == 8

NextRandom(state) == (5 * state + 3) % RandomModulus

Seeds == {1, 6}

\* confidenceLevel in hundredths
ConfidenceLevels == {50, 90}

TrustOptionSets ==
    [bootstrapSamples : 2..MaxBootstrapSamples,
     confidenceLevel : ConfidenceLevels,
     seed : Seeds]

\* the outcomes the episodes of a trust pair are drawn from
TrustOutcomes == { o \in EpisodeOutcomes : o.totalRetries # 3 }

\* mutant of ResampleSource: the resampling draws from the ambient generator
ResampleSourceAmbient(seed, ambient) == ambient

\* the initial state of the generator the resampling draws from: created
\* from the explicit seed, never the ambient generator
ResampleSource(seed, ambient) == seed

\* count indices into a list of n pairs drawn with replacement (each from
\* the high part of the generator state), and the generator state after
\* the draws
RECURSIVE DrawIndices(_, _, _)
DrawIndices(state, n, count) ==
    IF count = 0 THEN [indices |-> <<>>, state |-> state]
    ELSE LET rest == DrawIndices(NextRandom(state), n, count - 1)
         IN  [indices |-> <<((state * n) \div RandomModulus) + 1>> \o rest.indices,
              state |-> rest.state]

\* the tracked effect sizes of a pair list
TrustMetrics ==
    {"relativeHarmfulRetryReduction", "relativeWallTimeReduction",
     "relativeTokenCountReduction"}

EffectSizes(ps) ==
    [relativeHarmfulRetryReduction |->
         relativeReduction(SumField(ps, "harmfulRetriesOff"),
                           SumField(ps, "harmfulRetriesOn")),
     relativeWallTimeReduction |->
         relativeReduction(SumField(ps, "wallTimeOffMs"), SumField(ps, "wallTimeOnMs")),
     relativeTokenCountReduction |->
         relativeReduction(SumField(ps, "tokenCountOff"), SumField(ps, "tokenCountOn"))]

\* the effect sizes of count successive resamples (one resample at a time)
RECURSIVE ResampledEffects(_, _, _)
ResampledEffects(ps, state, count) ==
    IF count = 0 THEN <<>>
    ELSE LET draw == DrawIndices(state, Len(ps), Len(ps))
             resample == [i \in 1..Len(ps) |-> ps[draw.indices[i]]]
         IN  <<EffectSizes(resample)>> \o ResampledEffects(ps, draw.state, count - 1)

\* ascending insertion of a value into sorted values
RECURSIVE InsertValue(_, _)
InsertValue(sorted, x) ==
    IF sorted = <<>> THEN <<x>>
    ELSE IF FracLess(x, Head(sorted)) THEN <<x>> \o sorted
    ELSE <<Head(sorted)>> \o InsertValue(Tail(sorted), x)

RECURSIVE SortValues(_)
SortValues(values) ==
    IF values = <<>> THEN <<>>
    ELSE InsertValue(SortValues(Tail(values)), Head(values))

\* the empirical interval of the values at a confidence level (hundredths):
\* the same number of values is cut from each tail
EmpiricalInterval(values, confidenceLevel) ==
    LET sorted == SortValues(values)
        cut == ((100 - confidenceLevel) * Len(values)) \div 200
    IN  [lower |-> sorted[cut + 1], upper |-> sorted[Len(values) - cut]]

\* TrustSummary {sampleCount, confidenceLevel, seed, intervalsByMetric}
estimateTrust(ps, opts, ambient) ==
    IF ps = <<>>
    THEN [sampleCount |-> 0, confidenceLevel |-> opts.confidenceLevel,
          seed |-> opts.seed,
          intervalsByMetric |->
              [m \in TrustMetrics |-> [lower |-> FracOfInt(0), upper |-> FracOfInt(0)]]]
    ELSE LET effects == ResampledEffects(ps, ResampleSource(opts.seed, ambient),
                                         opts.bootstrapSamples)
         IN  [sampleCount |-> Len(effects), confidenceLevel |-> opts.confidenceLevel,
              seed |-> opts.seed,
              intervalsByMetric |->
                  [m \in TrustMetrics |->
                      EmpiricalInterval([i \in 1..Len(effects) |-> effects[i][m]],
                                        opts.confidenceLevel)]]

\* ------------------------------------------------- debug ranking lists
MaxRankFamilies == 27       \* families of the lane
MaxRankPairs == 52          \* pairs of the lane

\* the fixed sizes of the family and pair rankings
RankedFamilyCap == 25
RankedPairCap == 50

\* --debug-max-families / --debug-max-pairs: Math.max(0, n), default 200
DebugLimitSets ==
    [debugMaxFamilies : {0, 1, 10, RankedFamilyCap, RankedFamilyCap + 1, 200},
     debugMaxPairs : {0, 1, 10, RankedPairCap, RankedPairCap + 1, 200}]

\* mutant of takeLimited: nothing is cut
takeLimitedAll(items, limit) == items

takeLimited(items, limit) ==
    IF limit <= 0 \/ Len(items) <= limit THEN items
    ELSE SubSeq(items, 1, limit)

\* a sorted list of n entries, each entry held as its position in the order
SortedEntries(n) == [i \in 1..n |-> i]

\* the lists of the record buildTrajectoryLaneDebug returns, for a lane of
\* familyCount families and pairCount pairs
LaneRankingLists(familyCount, pairCount, debugMaxFamilies, debugMaxPairs) ==
    LET familiesByPairCount == SortedEntries(familyCount)
        familiesByHarmfulReduction == SortedEntries(familyCount)
        familiesByWallTime == SortedEntries(familyCount)
        familiesByTokenCount == SortedEntries(familyCount)
        pairsByHarmfulDelta == SortedEntries(pairCount)
        pairsByWallTimeDelta == SortedEntries(pairCount)
        pairsByTokenCountDelta == SortedEntries(pairCount)
        familyLimit == IF debugMaxFamilies <= 0 THEN Len(familiesByPairCount)
                       ELSE debugMaxFamilies
        pairLimit == IF debugMaxPairs <= 0 THEN pairCount ELSE debugMaxPairs
    IN  [pairCount |-> pairCount,
         familyCount |-> familyCount,
         families |-> takeLimited(familiesByPairCount, familyLimit),
         topFamiliesByPairCount |->
             takeLimited(familiesByPairCount, Min(RankedFamilyCap, familyLimit)),
         worstFamiliesByHarmfulRetryReduction |->
             takeLimited(familiesByHarmfulReduction, Min(RankedFamilyCap, familyLimit)),
         worstFamiliesByWallTimeReduction |->
             takeLimited(familiesByWallTime, Min(RankedFamilyCap, familyLimit)),
         worstFamiliesByTokenCountReduction |->
             takeLimited(familiesByTokenCount, Min(RankedFamilyCap, familyLimit)),
         worstPairsByHarmfulRetriesDelta |->
             takeLimited(pairsByHarmfulDelta, Min(RankedPairCap, pairLimit)),
         worstPairsByWallTimeDelta |->
             takeLimited(pairsByWallTimeDelta, Min(RankedPairCap, pairLimit)),
         worstPairsByTokenCountDelta |->
             takeLimited(pairsByTokenCountDelta, Min(RankedPairCap, pairLimit))]

\* ------------------------------------------------- debug text fields
\* A signature text is held as the sequence of its chunks, each chunk with
\* the blank that follows it:
\*   [kind |-> "text", text]          words without secret content
\*   [kind |-> "bearer", value]       `authorization: bearer <value>`
\*   [kind |-> "keyvalue", key, value]  `<key>=<value>`
\*   [kind |-> "path", root, name]    `<root>/<name>/work`
\*   [kind |-> "cut", of, keep]       the first keep characters of a chunk
MaxChunks == 3              \* chunks of a raw family signature

\* the length a sanitized family signature is cut to
SignatureTextLimit == 240

SecretValues == {"abc", "hunter22"}
UserNames == {"al", "bob"}
SecretKeys == {"token", "GITHUB_TOKEN"}
PathRoots == {"/Users", "/home"}

\* "--reporter ..." stands for an argument list of 230 characters
PlainTexts == {"npm run test", "git push", "--reporter ..."}

TextLength(text) ==
    CASE text = "npm run test" -> 12
      [] text = "git push" -> 8
      [] text = "--reporter ..." -> 230
      [] text = "abc" -> 3
      [] text = "hunter22" -> 8
      [] text = "al" -> 2
      [] text = "bob" -> 3
      [] text = "token" -> 5
      [] text = "GITHUB_TOKEN" -> 12
      [] text = "/Users" -> 6
      [] text = "/home" -> 5
      [] text = "<redacted>" -> 10
      [] text = "<user>" -> 6
      [] text = "authorization: bearer " -> 22
      [] text = "/work" -> 5

PlainChunks == { [kind |-> "text", text |-> t] : t \in PlainTexts }

BearerChunk(value) == [kind |-> "bearer", value |-> value]
KeyValueChunk(key, value) == [kind |-> "keyvalue", key |-> key, value |-> value]
PathChunk(root, name) == [kind |-> "path", root |-> root, name |-> name]

\* the pairs of chunks that differ at most in their secret or path content
SecretChunkPairs ==
    { <<BearerChunk(v), BearerChunk(w)>> : v \in SecretValues, w \in SecretValues }
    \cup { <<KeyValueChunk(k[1], k[2]), KeyValueChunk(k[1], k[3])>> :
              k \in SecretKeys \X SecretValues \X SecretValues }
    \cup { <<PathChunk(r[1], r[2]), PathChunk(r[1], r[3])>> :
              r \in PathRoots \X UserNames \X UserNames }

\* characters of a chunk, the following blank included
ChunkLength(c) ==
    1 + (CASE c.kind = "text" -> TextLength(c.text)
           [] c.kind = "bearer" ->
                TextLength("authorization: bearer ") + TextLength(c.value)
           [] c.kind = "keyvalue" -> TextLength(c.key) + 1 + TextLength(c.value)
           [] c.kind = "path" ->
                TextLength(c.root) + 1 + TextLength(c.name) + TextLength("/work"))

\* /\b(api[_-]?key|token|secret|password)=\S+/gi: the key has to start at
\* a word boundary, and `_` is a word character
KeyIsRecognized(key) ==
    CASE key = "token" -> TRUE
      [] key = "GITHUB_TOKEN" -> FALSE

SanitizeChunk(c) ==
    CASE c.kind = "bearer" -> [c EXCEPT !.value = "<redacted>"]
      [] c.kind = "keyvalue" ->
            IF KeyIsRecognized(c.key) THEN [c EXCEPT !.value = "<redacted>"] ELSE c
      [] c.kind = "path" -> [c EXCEPT !.name = "<user>"]
      [] OTHER -> c

sanitizeDebugText(text) == [i \in DOMAIN text |-> SanitizeChunk(text[i])]

\* String.prototype.slice(0, limit)
RECURSIVE SliceText(_, _)
SliceText(text, limit) ==
    IF text = <<>> \/ limit <= 0 THEN <<>>
    ELSE IF ChunkLength(Head(text)) <= limit
         THEN <<Head(text)>> \o SliceText(Tail(text), limit - ChunkLength(Head(text)))
         ELSE <<[kind |-> "cut", of |-> Head(text), keep |-> limit]>>

\* sha256Hex(pairIdSource).slice(0, 16): an opaque digest, equal for equal
\* sources
debugPairId(pairIdSource) == <<"sha256/16", pairIdSource>>

\* the first word of a raw signature, as FirstWord reads it
CommandText(raw) ==
    IF raw # <<>> /\ raw[1].kind = "text" THEN raw[1].text ELSE ""

\* the text fields of the debug pair of a pair (the session ids and start
\* times are copied from the pair as they are)
DebugPairText(raw, index, pairId) ==
    [pairId |-> debugPairId(IF pairId # {} THEN <<"id", pairId>>
                            ELSE <<raw, "-", index>>),
     familyId |-> debugFamilyId(raw),
     familySignature |-> SliceText(sanitizeDebugText(raw), SignatureTextLimit),
     toolSurface |-> inferToolSurfaceKey(CommandText(raw))]

\* --------------------------------------------------- episode extractor
MaxTraceEvents == 4         \* trace events of one extraction

\* events looked at after a failure for its resolving success
LookAheadWindow == 2

TraceSessionIds == {"session-a", "session-b"}

\* failure / success tool results, and events that are neither
TraceEventKinds == {"failure", "success", "other"}

\* the events of a session in input order; an event's id is its position
\* in the input, which is also its rank in time
EventsOfSession(events, sessionId) ==
    SelectSeq(events, LAMBDA e : e.sessionId = sessionId)

FirstSuccessWithin(evs, from, to) ==
    LET found == { j \in from..Min(Len(evs), to) : evs[j].kind = "success" }
    IN  IF found = {} THEN 0 ELSE CHOOSE j \in found : \A k \in found : j <= k

CountFailures(evs, from, to) ==
    Cardinality({ k \in from..to : evs[k].kind = "failure" })

ResolvedEpisode(evs, from, to) ==
    [sessionId |-> evs[from].sessionId, trigger |-> evs[from].id,
     startedAt |-> evs[from].id, endedAt |-> evs[to].id,
     retries |-> CountFailures(evs, from, to), success |-> TRUE]

UnresolvedEpisode(evs, from) ==
    [sessionId |-> evs[from].sessionId, trigger |-> evs[from].id,
     startedAt |-> evs[from].id, endedAt |-> evs[from].id,
     retries |-> 1, success |-> FALSE]

\* mutant of the scan: every failure opens an episode of its own
RECURSIVE ScanEveryFailure(_, _)
ScanEveryFailure(evs, cursor) ==
    IF cursor > Len(evs) THEN <<>>
    ELSE IF evs[cursor].kind # "failure" THEN ScanEveryFailure(evs, cursor + 1)
    ELSE LET to == FirstSuccessWithin(evs, cursor + 1, cursor + LookAheadWindow)
         IN  <<IF to = 0 THEN UnresolvedEpisode(evs, cursor)
               ELSE ResolvedEpisode(evs, cursor, to)>>
             \o ScanEveryFailure(evs, cursor + 1)

\* scan forward: a failure opens an episode; the next success within the
\* window closes it and the scan goes on behind that success; without one
\* the episode is unresolved and the scan goes on behind the failure
RECURSIVE ScanSession(_, _)
ScanSession(evs, cursor) ==
    IF cursor > Len(evs) THEN <<>>
    ELSE IF evs[cursor].kind # "failure" THEN ScanSession(evs, cursor + 1)
    ELSE LET to == FirstSuccessWithin(evs, cursor + 1, cursor + LookAheadWindow)
         IN  IF to = 0
             THEN <<UnresolvedEpisode(evs, cursor)>> \o ScanSession(evs, cursor + 1)
             ELSE <<ResolvedEpisode(evs, cursor, to)>> \o ScanSession(evs, to + 1)

extractObservedAbEpisodesEveryFailure(events) ==
    ScanEveryFailure(EventsOfSession(events, "session-a"), 1)
        \o ScanEveryFailure(EventsOfSession(events, "session-b"), 1)

extractObservedAbEpisodes(events) ==
    ScanSession(EventsOfSession(events, "session-a"), 1)
        \o ScanSession(EventsOfSession(events, "session-b"), 1)

\* ------------------------------------------------ in-memory lexical index
\* A text is held as the sequence of its words; "NPM" lowercases to "npm"
\* and "a" is a word of one character.
\* query.limit ?? 10
DefaultSearchLimit == 10

IndexWords == {"npm", "test", "NPM", "a"}

DocumentTexts == {<<"npm", "test">>, <<"test", "test">>, <<"NPM", "a">>}

QueryTexts == {<<"npm">>, <<"test", "npm">>, <<"a">>}

\* an absent metadata / filters / limit is the empty set; a metadata or
\* filters object is the set of its <<key, value>> entries
DocumentMetadata == {{}, {{<<"scope", "team">>}}, {{<<"scope", "personal">>}}}

QueryFilters == {{}, {{}}, {{<<"scope", "personal">>}}}

QueryLimits == {{}, {0}, {1}}

SingleDocumentIds == {<<"doc", 1>>, <<"doc", 2>>}

\* the ids of the documents of one upsertMany call
BulkDocumentIds == { <<"bulk", i>> : i \in 1..(DefaultSearchLimit + 1) }

Document(id, text, metadata) == [id |-> id, text |-> text, metadata |-> metadata]

ToLowerCase(word) == IF word = "NPM" THEN "npm" ELSE word

WordLength(word) == IF word = "a" THEN 1 ELSE IF word = "test" THEN 4 ELSE 3

tokenize(text) ==
    SelectSeq([i \in DOMAIN text |-> ToLowerCase(text[i])],
              LAMBDA token : WordLength(token) > 1)

metadataMatches(metadata, filters) ==
    IF filters = {} THEN TRUE
    ELSE IF metadata = {} THEN FALSE
    ELSE LET md == CHOOSE m \in metadata : TRUE
             fs == CHOOSE f \in filters : TRUE
         IN  \A entry \in fs : entry \in md

\* Map.prototype.set on a map held as a sequence of entries: an existing
\* key keeps its place
SetEntry(entries, key, value) ==
    IF \E i \in DOMAIN entries : entries[i].key = key
    THEN [i \in DOMAIN entries |->
             IF entries[i].key = key THEN [key |-> key, value |-> value]
             ELSE entries[i]]
    ELSE Append(entries, [key |-> key, value |-> value])

CountOf(tokens, term) == Cardinality({ i \in DOMAIN tokens : tokens[i] = term })

\* the distinct terms of tokens in the order of their first occurrence
RECURSIVE DistinctTerms(_)
DistinctTerms(tokens) ==
    IF tokens = <<>> THEN <<>>
    ELSE <<Head(tokens)>>
         \o DistinctTerms(SelectSeq(Tail(tokens), LAMBDA t : t # Head(tokens)))

RECURSIVE AddTermPostings(_, _, _, _)
AddTermPostings(post, terms, tokens, id) ==
    IF terms = <<>> THEN post
    ELSE LET term == Head(terms)
             docsForTerm == IF term \in DOMAIN post THEN post[term] ELSE <<>>
             next == SetEntry(docsForTerm, id, CountOf(tokens, term))
         IN  AddTermPostings([t \in DOMAIN post \cup {term} |->
                                 IF t = term THEN next ELSE post[t]],
                             Tail(terms), tokens, id)

addPostings(post, document) ==
    AddTermPostings(post, DistinctTerms(tokenize(document.text)),
                    tokenize(document.text), document.id)

RECURSIVE RemoveTermPostings(_, _, _)
RemoveTermPostings(post, tokens, id) ==
    IF tokens = <<>> THEN post
    ELSE LET term == Head(tokens)
         IN  IF term \notin DOMAIN post
             THEN RemoveTermPostings(post, Tail(tokens), id)
             ELSE LET left == SelectSeq(post[term], LAMBDA e : e.key # id)
                  IN  RemoveTermPostings(
                          IF left = <<>>
                          THEN [t \in DOMAIN post \ {term} |-> post[t]]
                          ELSE [post EXCEPT ![term] = left],
                          Tail(tokens), id)

removePostings(post, document) ==
    RemoveTermPostings(post, tokenize(document.text), document.id)

\* mutant of upsert: the postings of the previous version are kept
upsertKeepingPostings(index, document) ==
    [documents |-> [id \in DOMAIN index.documents \cup {document.id} |->
                       IF id = document.id THEN document ELSE index.documents[id]],
     postings |-> addPostings(index.postings, document)]

\* upsert on the index {documents, postings}
upsert(index, document) ==
    LET cleared == IF document.id \in DOMAIN index.documents
                   THEN removePostings(index.postings,
                                       index.documents[document.id])
                   ELSE index.postings
    IN  [documents |-> [id \in DOMAIN index.documents \cup {document.id} |->
                           IF id = document.id THEN document
                           ELSE index.documents[id]],
         postings |-> addPostings(cleared, document)]

RECURSIVE upsertMany(_, _)
upsertMany(index, docs) ==
    IF docs = <<>> THEN index
    ELSE upsertMany(upsert(index, Head(docs)), Tail(docs))

\* Math.log(n) in thousandths, rounded
LnThousandths(n) ==
    CASE n = 1 -> 0      [] n = 2 -> 693   [] n = 3 -> 1099  [] n = 4 -> 1386
      [] n = 5 -> 1609   [] n = 6 -> 1792  [] n = 7 -> 1946  [] n = 8 -> 2079
      [] n = 9 -> 2197   [] n = 10 -> 2303 [] n = 11 -> 2398 [] n = 12 -> 2485
      [] n = 13 -> 2565  [] n = 14 -> 2639 [] n = 15 -> 2708 [] n = 16 -> 2773

\* Math.log((1 + totalDocs) / (1 + docFrequency)) + 1, in thousandths
InverseDocFrequency(totalDocs, docFrequency) ==
    LnThousandths(1 + totalDocs) - LnThousandths(1 + docFrequency) + 1000

\* the inner loop of search over the postings of one term
RECURSIVE ScoreEntries(_, _, _, _, _)
ScoreEntries(scores, entries, idf, index, filters) ==
    IF entries = <<>> THEN scores
    ELSE LET docId == Head(entries).key
             termFrequency == Head(entries).value
             skip == \/ docId \notin DOMAIN index.documents
                     \/ ~metadataMatches(index.documents[docId].metadata, filters)
             previous == IF \E i \in DOMAIN scores : scores[i].key = docId
                         THEN (CHOOSE e \in { scores[i] : i \in DOMAIN scores } :
                                  e.key = docId).value
                         ELSE 0
         IN  ScoreEntries(IF skip THEN scores
                          ELSE SetEntry(scores, docId, previous + termFrequency * idf),
                          Tail(entries), idf, index, filters)

\* the outer loop of search over the query terms
RECURSIVE ScoreTerms(_, _, _, _)
ScoreTerms(scores, queryTerms, index, filters) ==
    IF queryTerms = <<>> THEN scores
    ELSE LET term == Head(queryTerms)
             totalDocs == Max(Cardinality(DOMAIN index.documents), 1)
         IN  IF term \notin DOMAIN index.postings
             THEN ScoreTerms(scores, Tail(queryTerms), index, filters)
             ELSE ScoreTerms(
                      ScoreEntries(scores, index.postings[term],
                                   InverseDocFrequency(totalDocs,
                                                       Len(index.postings[term])),
                                   index, filters),
                      Tail(queryTerms), index, filters)

\* results.sort((a, b) => b.score - a.score): stable, descending
RECURSIVE InsertResult(_, _)
InsertResult(sorted, r) ==
    IF sorted = <<>> THEN <<r>>
    ELSE IF Head(sorted).score < r.score THEN <<r>> \o sorted
    ELSE <<Head(sorted)>> \o InsertResult(Tail(sorted), r)

RECURSIVE SortResults(_)
SortResults(results) ==
    IF results = <<>> THEN <<>>
    ELSE InsertResult(SortResults(SubSeq(results, 1, Len(results) - 1)),
                      results[Len(results)])

\* mutant of search: the metadata filters are not applied
searchUnfiltered(index, query) ==
    LET limit == IF query.limit = {} THEN DefaultSearchLimit
                 ELSE CHOOSE l \in query.limit : TRUE
        queryTerms == tokenize(query.text)
        scores == ScoreTerms(<<>>, queryTerms, index, {})
        results == [i \in DOMAIN scores |->
                       [document |-> index.documents[scores[i].key],
                        score |-> scores[i].value]]
    IN  IF queryTerms = <<>> THEN <<>>
        ELSE SubSeq(SortResults(results), 1, Min(limit, Len(results)))

search(index, query) ==
    LET limit == IF query.limit = {} THEN DefaultSearchLimit
                 ELSE CHOOSE l \in query.limit : TRUE
        queryTerms == tokenize(query.text)
        scores == ScoreTerms(<<>>, queryTerms, index, query.filters)
        results == [i \in DOMAIN scores |->
                       [document |-> index.documents[scores[i].key],
                        score |-> scores[i].value]]
    IN  IF queryTerms = <<>> THEN <<>>
        ELSE SubSeq(SortResults(results), 1, Min(limit, Len(results)))

\* --------------------------------------------------- wrong-turn miner
MaxIngestCalls == 3         \* ingest calls and runs before mining

LOOKAHEAD_RESULTS == 6

\* mine(limit = 50)
DefaultMineLimit == 50

MinerSessionIds == {"session-a", "session-b"}

\* the events the miner is fed with, by kind; an event is a tool result
\* with an error flag, a command and a text, or another event
EventKinds ==
    {[type |-> "tool_result", isError |-> TRUE, command |-> "npm test",
      text |-> "Error: not found"],
     [type |-> "tool_result", isError |-> TRUE, command |-> "",
      text |-> "Error: not found"],
     [type |-> "tool_result", isError |-> FALSE,
      command |-> "npm test -- --runInBand", text |-> "PASS"],
     [type |-> "tool_result", isError |-> FALSE, command |-> "npm test",
      text |-> "PASS"],
     [type |-> "tool_result", isError |-> FALSE, command |-> "", text |-> "PASS"],
     [type |-> "tool_result", isError |-> FALSE, command |-> "", text |-> ""],
     [type |-> "message", isError |-> FALSE, command |-> "", text |-> ""]}

\* the events ingested several at a time
RunEventKinds ==
    {[type |-> "tool_result", isError |-> FALSE, command |-> "NPM test",
      text |-> "PASS"],
     [type |-> "message", isError |-> FALSE, command |-> "", text |-> ""]}

\* normalizeCommandSignature
CommandSignature(command) ==
    CASE command = "" -> ""
      [] command = "npm test" -> "npm test"
      [] command = "NPM test" -> "npm test"
      [] command = "npm test -- --runInBand" -> "npm test -- --runinband"

\* normalizeText(text).slice(0, 120); "Error: not found" is also its own
\* first error signature
TextSignature(text) ==
    CASE text = "" -> ""
      [] text = "PASS" -> "pass"
      [] text = "Error: not found" -> "error: not found"

\* tokenSet of nearDup: the normalized tokens of more than two characters
CommandTokenSet(command) ==
    CASE command = "" -> {}
      [] command = "npm test" -> {"npm", "test"}
      [] command = "NPM test" -> {"npm", "test"}
      [] command = "npm test -- --runInBand" -> {"npm", "test", "--runinband"}

\* areNearDuplicate(a, b, 0.95): jaccardSimilarity(a, b) >= 0.95
areNearDuplicate(a, b) ==
    LET left == CommandTokenSet(a)
        right == CommandTokenSet(b)
        intersection == Cardinality(left \cap right)
        union == Cardinality(left) + Cardinality(right) - intersection
    IN  IF left = {} /\ right = {} THEN TRUE
        ELSE IF union = 0 THEN FALSE
        ELSE 100 * intersection >= 95 * union

\* the tool results of a bucket (toToolOutcome, null dropped)
ToolResults(events) == SelectSeq(events, LAMBDA e : e.type = "tool_result")

failureSignature(outcome) ==
    IF CommandSignature(outcome.command) # "" THEN CommandSignature(outcome.command)
    ELSE TextSignature(outcome.text)

successSignature(outcome) ==
    IF CommandSignature(outcome.command) # "" THEN CommandSignature(outcome.command)
    ELSE TextSignature(outcome.text)

\* mutant of isUnchangedRetry: no retry counts as unchanged
isUnchangedRetryNever(failure, success) == FALSE

isUnchangedRetry(failure, success) ==
    IF failure.command = "" \/ success.command = "" THEN FALSE
    ELSE IF failure.command = success.command THEN TRUE
    ELSE areNearDuplicate(failure.command, success.command)

Fingerprint(failure, success) ==
    <<failureSignature(failure), "=>", successSignature(success)>>

\* the lookahead loop: the first candidate behind index that is pushed, or 0
FirstFix(toolResults, index, seen) ==
    LET current == toolResults[index]
        fixes == { j \in (index + 1)..Min(Len(toolResults), index + LOOKAHEAD_RESULTS) :
                      /\ ~toolResults[j].isError
                      /\ ~isUnchangedRetry(current, toolResults[j])
                      /\ successSignature(toolResults[j]) # ""
                      /\ Fingerprint(current, toolResults[j]) \notin seen }
    IN  IF fixes = {} THEN 0 ELSE CHOOSE j \in fixes : \A k \in fixes : j <= k

Artifact(failure, success) ==
    [id |-> <<"artifact", failure.id, success.id>>,
     kind |-> "wrong_turn_fix",
     evidenceEventIds |-> <<failure.id, success.id>>,
     metadata |-> [failureSignature |-> failureSignature(failure),
                   successSignature |-> successSignature(success)]]

\* the loop over the tool results of one session; returned says that the
\* limit ended mine
RECURSIVE MineToolResults(_, _, _, _, _)
MineToolResults(toolResults, index, artifacts, seen, limit) ==
    IF index > Len(toolResults)
    THEN [artifacts |-> artifacts, seen |-> seen, returned |-> FALSE]
    ELSE LET current == toolResults[index]
             fix == IF current.isError /\ failureSignature(current) # ""
                    THEN FirstFix(toolResults, index, seen) ELSE 0
         IN  IF fix = 0
             THEN MineToolResults(toolResults, index + 1, artifacts, seen, limit)
             ELSE LET pushed == Append(artifacts, Artifact(current, toolResults[fix]))
                      added == seen \cup {Fingerprint(current, toolResults[fix])}
                  IN  IF Len(pushed) >= limit
                      THEN [artifacts |-> pushed, seen |-> added, returned |-> TRUE]
                      ELSE MineToolResults(toolResults, index + 1, pushed, added, limit)

\* the loop over the sessions in the order of the map
RECURSIVE MineSessions(_, _, _, _, _)
MineSessions(buckets, s, artifacts, seen, limit) ==
    IF s > Len(buckets) THEN artifacts
    ELSE LET done == MineToolResults(ToolResults(buckets[s].events), 1,
                                     artifacts, seen, limit)
         IN  IF done.returned THEN done.artifacts
             ELSE MineSessions(buckets, s + 1, done.artifacts, done.seen, limit)

mine(buckets, limit) ==
    MineSessions(buckets, 1, <<>>, {},
                 IF limit = {} THEN DefaultMineLimit ELSE CHOOSE l \in limit : TRUE)

\* events ingested so far
IngestedCount(buckets) ==
    IF buckets = <<>> THEN 0
    ELSE Cardinality(UNION { { buckets[s].events[i].id :
                                  i \in DOMAIN buckets[s].events } :
                              s \in DOMAIN buckets })

\* ingest: the event goes to the end of its session's bucket; a new bucket
\* goes to the end of the map
ingest(buckets, event) ==
    IF \E s \in DOMAIN buckets : buckets[s].sessionId = event.sessionId
    THEN [s \in DOMAIN buckets |->
             IF buckets[s].sessionId = event.sessionId
             THEN [buckets[s] EXCEPT !.events = Append(@, event)]
             ELSE buckets[s]]
    ELSE Append(buckets, [sessionId |-> event.sessionId, events |-> <<event>>])

TraceEventOf(kind, sessionId, id) ==
    [id |-> id, sessionId |-> sessionId, type |-> kind.type,
     isError |-> kind.isError, command |-> kind.command, text |-> kind.text]

RECURSIVE ingestRun(_, _, _, _)
ingestRun(buckets, kind, sessionId, count) ==
    IF count = 0 THEN buckets
    ELSE ingestRun(ingest(buckets,
                          TraceEventOf(kind, sessionId, IngestedCount(buckets) + 1)),
                   kind, sessionId, count - 1)

\* ------------------------------------------------------ remote team auth
MaxClockMs == 3          \* last instant of the clock
MaxPendingLookups == 2   \* resolveTeamId calls waiting for the remote at once

\* config.timeoutMs, config.cacheTtlMs and config.negativeCacheTtlMs, in
\* ticks of the clock
TimeoutMs == 2
CacheTtlMs == 3
NegativeCacheTtlMs == 1

AuthTokens == {"token-a", "token-b"}

\* new Map(): no token has an entry
NoCachedEntries == [token \in AuthTokens |-> {}]

\* no remote lookup has finished yet
NoFinishedLookups == [token \in AuthTokens |-> {}]

\* String.prototype.trim on the strings the remote sends here
Trim(text) ==
    CASE text = " team-a " -> "team-a"
      [] text = "  " -> ""
      [] OTHER -> text

\* the bodies the remote sends: json is FALSE when response.json() rejects,
\* isObject is FALSE for null and for a JSON value that is not an object;
\* teamId and team_id hold the string of the field, if it has one
Payloads ==
    { [json |-> FALSE, isObject |-> FALSE, teamId |-> {}, team_id |-> {}],
      [json |-> TRUE, isObject |-> FALSE, teamId |-> {}, team_id |-> {}],
      [json |-> TRUE, isObject |-> TRUE, teamId |-> {}, team_id |-> {}],
      [json |-> TRUE, isObject |-> TRUE, teamId |-> {" team-a "}, team_id |-> {}],
      [json |-> TRUE, isObject |-> TRUE, teamId |-> {"  "}, team_id |-> {"team-b"}] }

\* what fetch settles with: a response with a status and a body, or a
\* rejection (network error, or the abort of the timeout)
ResponseStatuses == {200, 401, 403, 500}

\* the body of a response that is not read, and of no response
NoPayload == [json |-> FALSE, isObject |-> FALSE, teamId |-> {}, team_id |-> {}]

FetchOutcomes ==
    { [arrives |-> TRUE, status |-> 200, payload |-> payload] : payload \in Payloads }
    \cup { [arrives |-> TRUE, status |-> status, payload |-> NoPayload] :
               status \in ResponseStatuses \ {200} }
    \cup { [arrives |-> FALSE, status |-> 0, payload |-> NoPayload] }

\* response.ok
ResponseOk(status) == status >= 200 /\ status <= 299

parseRemoteTeamId(payload) ==
    IF ~payload.isObject THEN {}
    ELSE IF \E teamId \in payload.teamId : Trim(teamId) # ""
         THEN { Trim(teamId) : teamId \in payload.teamId }
    ELSE IF \E teamId \in payload.team_id : Trim(teamId) # ""
         THEN { Trim(teamId) : teamId \in payload.team_id }
    ELSE {}

\* mutant of CachedIsFresh: the entry still counts at the instant it expires
CachedIsFreshAtExpiry(cached, nowMs) ==
    cached # {} /\ \A entry \in cached : entry.expiresAtMs >= nowMs

\* cached && cached.expiresAtMs > nowMs
CachedIsFresh(cached, nowMs) ==
    cached # {} /\ \A entry \in cached : entry.expiresAtMs > nowMs

\* what a call of resolveTeamId returned (statusCode 0, teamId {} for null)
\* or threw (the statusCode of the RemoteTeamAuthError)
Resolution(token, nowMs, teamId, statusCode, remote) ==
    [token |-> token, nowMs |-> nowMs, teamId |-> teamId,
     statusCode |-> statusCode, remote |-> remote]

\* how the lookup ends for the outcome of its fetch: "denied" on 401/403,
\* "ok" on an OK response with a team id in its body, "failed" otherwise
LookupOutcome(outcome) ==
    IF ~outcome.arrives THEN "failed"
    ELSE IF outcome.status \in {401, 403} THEN "denied"
    ELSE IF ~ResponseOk(outcome.status) THEN "failed"
    ELSE IF ~outcome.payload.json THEN "failed"
    ELSE IF parseRemoteTeamId(outcome.payload) = {} THEN "failed"
    ELSE "ok"

\* the cache after the lookup of token, begun at nowMs, got the outcome
CacheAfterLookup(entries, token, nowMs, outcome) ==
    CASE LookupOutcome(outcome) = "denied" ->
             [entries EXCEPT ![token] =
                 {[teamId |-> {}, expiresAtMs |-> nowMs + NegativeCacheTtlMs]}]
      [] LookupOutcome(outcome) = "ok" ->
             [entries EXCEPT ![token] =
                 {[teamId |-> parseRemoteTeamId(outcome.payload),
                   expiresAtMs |-> nowMs + CacheTtlMs]}]
      [] OTHER -> entries

\* what the call returns or throws after the outcome of its fetch
ResolutionAfterLookup(token, nowMs, outcome) ==
    CASE LookupOutcome(outcome) = "denied" -> Resolution(token, nowMs, {}, 0, TRUE)
      [] LookupOutcome(outcome) = "ok" ->
             Resolution(token, nowMs, parseRemoteTeamId(outcome.payload), 0, TRUE)
      [] OTHER -> Resolution(token, nowMs, {}, 503, TRUE)

\* the call of resolveTeamId(token) that read the clock at nowMs and waits
\* for its fetch
PendingLookup(token, nowMs) == [token |-> token, nowMs |-> nowMs]

\* ------------------------------------------------- Pi session trace events
MaxPiRecords == 4   \* records of a session file

DEFAULT_MAX_TOOL_OUTPUT_CHARS == 2000

\* options.toolName and options.sessionId
PiToolName == "bash"
PiSessionId == "pi-session"

\* timestamps as strings: an ISO date of the given milliseconds, or a text
\* that Date.parse does not read
IsoTimestamp(ms) == <<"iso", ms>>
UnreadableTimestamp == <<"unreadable", 0>>

\* new Date(index).toISOString(), index counted from 0
fallbackTimestamp(index) == IsoTimestamp(index)

\* parseTimestampMs: the milliseconds, if the string is a date
parseTimestampMs(timestamp) ==
    IF timestamp[1] = "iso" THEN {timestamp[2]} ELSE {}

\* value.replace(/\s+/g, " ").trim() on the commands used here
normalizeWhitespace(value) ==
    CASE value = "npm  test" -> "npm test"
      [] value = "  " -> ""
      [] OTHER -> value

\* input.length of the outputs used here
OutputLength(output) ==
    CASE output = "" -> 0
      [] output = "ok" -> 2
      [] output = "command exited with code 1" -> 26

\* input.slice(0, maxChars).trimEnd() followed by the ellipsis
TruncatedOutput(output, maxChars) == <<output, maxChars, "ellipsis">>

truncateText(input, maxChars) ==
    IF maxChars <= 0 \/ OutputLength(input) <= maxChars THEN input
    ELSE TruncatedOutput(input, maxChars)

\* PI_FAILURE_OUTPUT_PATTERNS on the outputs used here
MatchesFailurePattern(output) == output = "command exited with code 1"

inferPiToolResultIsError(explicitIsError, output) ==
    IF explicitIsError THEN TRUE
    ELSE MatchesFailurePattern(output)

nonNegativeDeltaMs(startMs, endMs) ==
    IF startMs = {} \/ endMs = {} THEN 0
    ELSE Max(0, (CHOOSE e \in endMs : TRUE) - (CHOOSE s \in startMs : TRUE))

\* a toolCall entry of an assistant message
PiToolCall(name, id, command) == [name |-> name, id |-> id, command |-> command]

\* a record of the session file: type, message.role, timestamp (if any),
\* message.content (the toolCall entries), message.usage (input tokens and
\* cost.total), message.toolName, message.toolCallId, the text of the
\* content of a tool result, message.isError
PiRecord(type, role, timestamp, content, usage, toolName, toolCallId, output, isError) ==
    [type |-> type, role |-> role, timestamp |-> timestamp, content |-> content,
     usage |-> usage, toolName |-> toolName, toolCallId |-> toolCallId,
     output |-> output, isError |-> isError]

NoUsage == [input |-> 0, cost |-> 0]
SomeUsage == [input |-> 4, cost |-> 2]

\* the records a session file is made of here; stamp is the timestamp of the
\* record: "clock" for the date of its position, "unreadable", or "absent"
PiRecordKinds ==
    { [stamp |-> "clock", record |-> PiRecord("session", "", {}, <<>>, NoUsage, "", "", "", FALSE)],
      [stamp |-> "clock", record |-> PiRecord("message", "user", {}, <<>>, NoUsage, "", "", "", FALSE)],
      [stamp |-> "unreadable", record |-> PiRecord("message", "user", {}, <<>>, NoUsage, "", "", "", FALSE)],
      [stamp |-> "clock", record |-> PiRecord("message", "assistant", {},
          <<PiToolCall("bash", "call-1", "npm test")>>, SomeUsage, "", "", "", FALSE)],
      [stamp |-> "clock", record |-> PiRecord("message", "assistant", {},
          <<PiToolCall("bash", "call-1", "ls")>>, NoUsage, "", "", "", FALSE)],
      [stamp |-> "clock", record |-> PiRecord("message", "assistant", {},
          <<PiToolCall("bash", "call-1", "npm  test"), PiToolCall("bash", "call-2", "ls")>>,
          SomeUsage, "", "", "", FALSE)],
      [stamp |-> "clock", record |-> PiRecord("message", "assistant", {},
          <<PiToolCall("read", "call-1", "cat")>>, SomeUsage, "", "", "", FALSE)],
      [stamp |-> "clock", record |-> PiRecord("message", "assistant", {},
          <<PiToolCall("bash", "call-2", "  ")>>, SomeUsage, "", "", "", FALSE)],
      [stamp |-> "clock", record |-> PiRecord("message", "toolResult", {}, <<>>, NoUsage,
          "bash", "call-1", "ok", FALSE)],
      [stamp |-> "clock", record |-> PiRecord("message", "toolResult", {}, <<>>, NoUsage,
          "bash", "call-1", "", TRUE)],
      [stamp |-> "absent", record |-> PiRecord("message", "toolResult", {}, <<>>, NoUsage,
          "bash", "call-2", "command exited with code 1", FALSE)],
      [stamp |-> "clock", record |-> PiRecord("message", "toolResult", {}, <<>>, NoUsage,
          "read", "call-1", "ok", FALSE)],
      [stamp |-> "clock", record |-> PiRecord("message", "toolResult", {}, <<>>, NoUsage,
          "bash", "", "ok", FALSE)] }

\* the record of the kind at the position (counted from 1) of the file
StampedRecord(kind, position) ==
    [kind.record EXCEPT !.timestamp =
        CASE kind.stamp = "clock" -> {IsoTimestamp(10 * position)}
          [] kind.stamp = "unreadable" -> {UnreadableTimestamp}
          [] OTHER -> {}]

PiToolCallIds == {"call-1", "call-2"}

\* the toolCall entries of the selected tool that have an id and a command
MatchingToolCalls(content, toolName) ==
    LET kept == SelectSeq(content, LAMBDA toolCall :
                    /\ toolCall.name = toolName
                    /\ toolCall.id # ""
                    /\ normalizeWhitespace(toolCall.command) # "")
    IN  [i \in 1..Len(kept) |->
            [id |-> kept[i].id, command |-> normalizeWhitespace(kept[i].command)]]

\* pendingToolCalls.set for each matching call, in order
RECURSIVE SetPendingToolCalls(_, _, _)
SetPendingToolCalls(pending, calls, shared) ==
    IF calls = <<>> THEN pending
    ELSE SetPendingToolCalls(
             [pending EXCEPT ![Head(calls).id] =
                 {[command |-> Head(calls).command] @@ shared}],
             Tail(calls), shared)

\* previousMessageTimestampMs after a message with the timestamp
TouchPrevious(state, timestampMs) ==
    IF timestampMs # {} THEN [state EXCEPT !.previous = timestampMs] ELSE state

\* mutant of RemovePending: the matched call stays pending
RemovePendingNever(pending, toolCallId) == pending

\* pendingToolCalls.delete(toolCallId)
RemovePending(pending, toolCallId) == [pending EXCEPT ![toolCallId] = {}]

\* one turn of the loop over records.entries(), index counted from 0
ProcessPiRecord(state, record, index, toolName, maxToolOutputChars) ==
    IF record.type # "message" THEN state
    ELSE
    LET timestamp == IF record.timestamp # {}
                     THEN CHOOSE t \in record.timestamp : TRUE
                     ELSE fallbackTimestamp(index)
        timestampMs == parseTimestampMs(timestamp)
    IN  IF record.role = "assistant"
        THEN LET calls == MatchingToolCalls(record.content, toolName)
                 callCount == Len(calls)
                 shared == [timestamp |-> timestamp,
                            timestampMs |-> timestampMs,
                            modelLatencyMs |->
                                Frac(nonNegativeDeltaMs(state.previous, timestampMs),
                                     callCount),
                            modelTokens |-> Frac(record.usage.input, callCount),
                            modelCostUsd |-> Frac(record.usage.cost, callCount)]
             IN  TouchPrevious(
                     IF callCount > 0
                     THEN [state EXCEPT !.pending =
                              SetPendingToolCalls(state.pending, calls, shared)]
                     ELSE state,
                     timestampMs)
        ELSE IF record.role # "toolResult" THEN TouchPrevious(state, timestampMs)
        ELSE IF record.toolName # toolName THEN TouchPrevious(state, timestampMs)
        ELSE IF record.toolCallId = "" THEN TouchPrevious(state, timestampMs)
        ELSE
        LET pending == IF record.toolCallId \in DOMAIN state.pending
                       THEN state.pending[record.toolCallId] ELSE {}
            command == IF pending = {} THEN ""
                       ELSE (CHOOSE p \in pending : TRUE).command
            output == truncateText(record.output, maxToolOutputChars)
        IN  IF command = "" /\ output = "" THEN TouchPrevious(state, timestampMs)
            ELSE
            LET isError == inferPiToolResultIsError(record.isError, output)
                toolLatencyMs ==
                    nonNegativeDeltaMs(
                        IF pending = {} THEN {}
                        ELSE (CHOOSE p \in pending : TRUE).timestampMs,
                        timestampMs)
                modelLatencyMs == IF pending = {} THEN Frac(0, 1)
                                  ELSE (CHOOSE p \in pending : TRUE).modelLatencyMs
                tokens == IF pending = {} THEN Frac(0, 1)
                          ELSE (CHOOSE p \in pending : TRUE).modelTokens
                costUsd == IF pending = {} THEN Frac(0, 1)
                           ELSE (CHOOSE p \in pending : TRUE).modelCostUsd
                event ==
                    [id |-> <<PiSessionId, "pi-tool-result", Len(state.traceEvents) + 1>>,
                     timestamp |-> timestamp,
                     command |-> command,
                     output |-> output,
                     isError |-> isError,
                     latencyMs |-> Frac(toolLatencyMs * modelLatencyMs.den
                                            + modelLatencyMs.num,
                                        modelLatencyMs.den),
                     tokens |-> IF tokens.num > 0 THEN {tokens} ELSE {},
                     cost |-> IF costUsd.num > 0 THEN {costUsd} ELSE {},
                     outcome |-> IF isError THEN "failure" ELSE "success"]
            IN  TouchPrevious(
                    [state EXCEPT !.traceEvents = Append(@, event),
                                  !.pending = RemovePending(@, record.toolCallId)],
                    timestampMs)

\* the loop state after the first n records
RECURSIVE PiLoop(_, _, _, _)
PiLoop(records, n, toolName, maxToolOutputChars) ==
    IF n = 0
    THEN [pending |-> [id \in PiToolCallIds |-> {}],
          traceEvents |-> <<>>,
          previous |-> {}]
    ELSE ProcessPiRecord(PiLoop(records, n - 1, toolName, maxToolOutputChars),
                         records[n], n - 1, toolName, maxToolOutputChars)

buildTraceEventsFromPiSessionRecords(records, toolName) ==
    PiLoop(records, Len(records), toolName, DEFAULT_MAX_TOOL_OUTPUT_CHARS).traceEvents

\* ------------------------------------------------------------------- Init
Init ==
    /\ sessions = <<>>
    /\ requestedEvalRatio = NoValue
    /\ holdout = NoValue
    /\ trainEpisodes = <<>>
    /\ evalEpisodes = <<>>
    /\ disjointSlice = NoValue
    /\ episodes = <<>>
    /\ pairingOptions = NoValue
    /\ pairs = <<>>
    /\ stratumPairs = <<>>
    /\ thresholds = NoValue
    /\ aggregate = NoValue
    /\ gateResult = NoValue
    /\ debugFamilies = NoValue
    /\ familyOverlap = NoValue
    /\ options = NoValue
    /\ laneReports = NoValue
    /\ overallGateResult = NoValue
    /\ exitCode = NoValue
    /\ strataEpisodes = <<>>
    /\ strataPairs = <<>>
    /\ strata = NoValue
    /\ trustPairs = <<>>
    /\ trustOptions = NoValue
    /\ ambientRandom = 0
    /\ trustSummaries = <<>>
    /\ laneFamilyCount = 0
    /\ lanePairCount = 0
    /\ debugLimits = NoValue
    /\ laneRankings = NoValue
    /\ rawSignatures = <<<<>>, <<>>>>
    /\ debugTexts = NoValue
    /\ holdoutOverlap = NoValue
    /\ traceEvents = <<>>
    /\ extractions = <<>>
    /\ documents = <<>>
    /\ postings = <<>>
    /\ searchQuery = NoValue
    /\ searchResults = NoValue
    /\ replacedDocument = {}
    /\ eventsBySession = <<>>
    /\ ingestCalls = 0
    /\ mineLimit = NoValue
    /\ minings = <<>>
    /\ clockMs = 0
    /\ cache = NoCachedEntries
    /\ lookups = EmptyBag
    /\ lastLookup = NoFinishedLookups
    /\ resolved = {}
    /\ piRecords = <<>>
    /\ piTraceEvents = {}
    /\ pc = "collect"

\* ------------------------------------------------- actions: holdout split
\* main() summarizes one more session envelope (ids are map keys: distinct)
AddSession ==
    /\ pc = "collect"
    /\ Len(sessions) < MaxSessions
    /\ \E id \in SessionIds, t \in StartTimes :
          /\ \A i \in 1..Len(sessions) : sessions[i].sessionId # id
          /\ sessions' = Append(sessions, [sessionId |-> id, startedAt |-> t])
    /\ UNCHANGED <<requestedEvalRatio, holdout, sliceVars, pairVars, aggVars,
                   restVars, pc>>

SplitSessions ==
    /\ pc = "collect"
    /\ \E r \in EvalRatios :
          /\ requestedEvalRatio' = r
          /\ holdout' = splitSessionsChronologically(sessions, r)
    /\ pc' = "split"
    /\ UNCHANGED <<sessions, sliceVars, pairVars, aggVars, restVars>>

NextSplit == AddSession \/ SplitSessions

SpecSplit == Init /\ [][NextSplit]_vars

\* ------------------------------------------- actions: family-disjoint slice
\* one more episode extracted from the events of the train sessions
AddTrainEpisode ==
    /\ pc = "collect"
    /\ Len(trainEpisodes) < MaxSliceEpisodes
    /\ \E f \in Families :
          trainEpisodes' = Append(trainEpisodes,
              [id |-> <<"train", Len(trainEpisodes) + 1>>, familySignature |-> f])
    /\ UNCHANGED <<evalEpisodes, disjointSlice, splitVars, pairVars, aggVars, restVars, pc>>

\* one more episode extracted from the events of the eval sessions
AddEvalEpisode ==
    /\ pc = "collect"
    /\ Len(evalEpisodes) < MaxSliceEpisodes
    /\ \E f \in Families :
          evalEpisodes' = Append(evalEpisodes,
              [id |-> <<"eval", Len(evalEpisodes) + 1>>, familySignature |-> f])
    /\ UNCHANGED <<trainEpisodes, disjointSlice, splitVars, pairVars, aggVars, restVars, pc>>

BuildDisjointSlice ==
    /\ pc = "collect"
    /\ disjointSlice' = buildFamilyDisjointEvalSlice(trainEpisodes, evalEpisodes)
    /\ pc' = "sliced"
    /\ UNCHANGED <<trainEpisodes, evalEpisodes, splitVars, pairVars, aggVars, restVars>>

NextSlice == AddTrainEpisode \/ AddEvalEpisode \/ BuildDisjointSlice

SpecSlice == Init /\ [][NextSlice]_vars

\* ------------------------------------------------- actions: pair builder
\* one more extracted episode; episodes are extracted in chronological order
AddEpisode ==
    /\ pc = "collect"
    /\ Len(episodes) < MaxEpisodes
    /\ \E sid \in PairSessionIds, f \in PairFamilies, size \in EpisodeSizes :
          episodes' = Append(episodes,
              [id |-> Len(episodes) + 1, sessionId |-> sid, familySignature |-> f,
               startedAt |-> Len(episodes) + 1,
               wallTimeMs |-> size.wallTimeMs, tokenCount |-> size.tokenCount])
    /\ UNCHANGED <<pairingOptions, pairs, splitVars, sliceVars, aggVars, restVars, pc>>

BuildPairs ==
    /\ pc = "collect"
    /\ \E opts \in PairingOptionSets :
          /\ pairingOptions' = opts
          /\ pairs' = buildPairs(episodes, opts)
    /\ pc' = "paired"
    /\ UNCHANGED <<episodes, splitVars, sliceVars, aggVars, restVars>>

NextPairs == AddEpisode \/ BuildPairs

SpecPairs == Init /\ [][NextPairs]_vars

\* --------------------------------------- actions: aggregation, gate, debug
\* one more pair of the stratum
AddPair ==
    /\ pc = "collect"
    /\ Len(stratumPairs) < MaxPairs
    /\ \E f \in AggFamilies, off \in EpisodeOutcomes, on \in EpisodeOutcomes :
          stratumPairs' = Append(stratumPairs, TrajectoryPair(f, off, on))
    /\ UNCHANGED <<thresholds, aggregate, gateResult, debugFamilies,
                   splitVars, sliceVars, pairVars, restVars, pc>>

\* summarizeDimension for one stratum: aggregate, then gate
SummarizeStratum ==
    /\ pc = "collect"
    /\ \E th \in ThresholdSets :
          /\ thresholds' = th
          /\ aggregate' = aggregateTrajectoryPairsForStratum(stratumPairs)
          /\ gateResult' = evaluateTrajectoryGateForStratum(
                               aggregateTrajectoryPairsForStratum(stratumPairs), th)
    /\ pc' = "summarized"
    /\ UNCHANGED <<stratumPairs, debugFamilies, splitVars, sliceVars, pairVars, restVars>>

\* buildTrajectoryLaneDebug over the same pairs
BuildLaneDebug ==
    /\ pc = "summarized"
    /\ debugFamilies' = DebugFamilies(stratumPairs)
    /\ pc' = "debug"
    /\ UNCHANGED <<stratumPairs, thresholds, aggregate, gateResult,
                   splitVars, sliceVars, pairVars, restVars>>

NextAgg == AddPair \/ SummarizeStratum \/ BuildLaneDebug

SpecAgg == Init /\ [][NextAgg]_vars

\* ------------------------------------------ actions: overall gate and exit
\* parseArgs: the gate and exit options of the run
ParseArgs ==
    /\ pc = "collect"
    /\ options = NoValue
    /\ \E o \in RunOptionSets : options' = o
    /\ pc' = "parsed"
    /\ UNCHANGED <<familyOverlap, laneReports, overallGateResult, exitCode,
                   exceptRun>>

\* summarizeFamilyOverlap over the episodes of the train and eval sessions
SummarizeOverlap ==
    /\ pc = "parsed"
    /\ \E train \in OverlapEpisodeLists(MaxOverlapEpisodes),
          eval \in OverlapEpisodeLists(MaxOverlapEpisodes) :
          familyOverlap' = summarizeFamilyOverlap(train, eval)
    /\ pc' = "overlap"
    /\ UNCHANGED <<options, laneReports, overallGateResult, exitCode,
                   exceptRun>>

\* the two lane reports: the family-disjoint lane has pairs only when an eval
\* family is absent from train, and the full lane has at least as many
EvaluateLanes ==
    /\ pc = "overlap"
    /\ \E full \in LaneGateResults, disjoint \in LaneGateResults,
          n \in 0..MaxLanePairs :
          /\ n > 0 => familyOverlap.evalFamilyCount
                         > familyOverlap.overlappingFamilyCount
          /\ laneReports' =
                [full_eval |-> [gateResult |-> full, totalPairs |-> n + 1],
                 family_disjoint_eval |-> [gateResult |-> disjoint, totalPairs |-> n]]
    /\ pc' = "lanes"
    /\ UNCHANGED <<familyOverlap, options, overallGateResult, exitCode,
                   exceptRun>>

FoldOverallGate ==
    /\ pc = "lanes"
    /\ overallGateResult' = overallGate(options, laneReports, familyOverlap)
    /\ pc' = "gated"
    /\ UNCHANGED <<familyOverlap, options, laneReports, exitCode,
                   exceptRun>>

Exit ==
    /\ pc = "gated"
    /\ exitCode' = toExitCode(options, familyOverlap.overlappingFamilyCount,
                              familyOverlap.overlapRateByEvalFamilies,
                              overallGateResult.pass)
    /\ pc' = "exited"
    /\ UNCHANGED <<familyOverlap, options, laneReports, overallGateResult,
                   exceptRun>>

NextRun == ParseArgs \/ SummarizeOverlap \/ EvaluateLanes \/ FoldOverallGate \/ Exit

SpecRun == Init /\ [][NextRun]_vars

\* ------------------------------------------------------- actions: strata
\* one more episode of the lane report (ids are distinct)
AddStrataEpisode ==
    /\ pc = "collect"
    /\ strataPairs = <<>>
    /\ Len(strataEpisodes) < MaxStrataEpisodes
    /\ \E s \in StrataSessionIds, f \in StrataFamilies :
          strataEpisodes' = Append(strataEpisodes,
              [id |-> Len(strataEpisodes) + 1, sessionId |-> s, familySignature |-> f])
    /\ UNCHANGED <<strataPairs, strata, exceptStrata, pc>>

\* one more pair of the lane report: two episodes of one family, each in at
\* most one pair
AddStrataPair ==
    /\ pc = "collect"
    /\ Len(strataPairs) < MaxStrataPairs
    /\ \E i \in 1..Len(strataEpisodes), j \in 1..Len(strataEpisodes) :
          /\ i < j
          /\ strataEpisodes[i].familySignature = strataEpisodes[j].familySignature
          /\ \A k \in 1..Len(strataPairs) :
                {i, j} \cap {strataPairs[k].offEpisodeId, strataPairs[k].onEpisodeId} = {}
          /\ strataPairs' = Append(strataPairs,
                                   StrataPair(strataEpisodes[i], strataEpisodes[j]))
    /\ UNCHANGED <<strataEpisodes, strata, exceptStrata, pc>>

BuildStrata ==
    /\ pc = "collect"
    /\ \E th \in ThresholdSets :
          strata' = buildTrajectoryStrata(strataEpisodes, strataPairs,
                                          SessionModelKeys, th)
    /\ pc' = "strata"
    /\ UNCHANGED <<strataEpisodes, strataPairs, exceptStrata>>

NextStrata == AddStrataEpisode \/ AddStrataPair \/ BuildStrata

SpecStrata == Init /\ [][NextStrata]_vars

\* ---------------------------------------- actions: bootstrap trust estimator
AddTrustPair ==
    /\ pc = "collect"
    /\ Len(trustPairs) < MaxTrustPairs
    /\ \E off \in TrustOutcomes, on \in TrustOutcomes :
          trustPairs' = Append(trustPairs, TrajectoryPair("npm run test", off, on))
    /\ UNCHANGED <<trustOptions, ambientRandom, trustSummaries, exceptTrust, pc>>

\* the trust options of the run
SetTrustOptions ==
    /\ pc = "collect"
    /\ \E o \in TrustOptionSets : trustOptions' = o
    /\ pc' = "trust"
    /\ UNCHANGED <<trustPairs, ambientRandom, trustSummaries, exceptTrust>>

\* some other code draws from the ambient generator
AmbientDraw ==
    /\ pc = "trust"
    /\ Len(trustSummaries) < 2
    /\ ambientRandom' = NextRandom(ambientRandom)
    /\ UNCHANGED <<trustPairs, trustOptions, trustSummaries, exceptTrust, pc>>

\* one invocation of the estimator on the pair list and the trust options
EstimateTrust ==
    /\ pc = "trust"
    /\ Len(trustSummaries) < 2
    /\ trustSummaries' = Append(trustSummaries,
                                estimateTrust(trustPairs, trustOptions, ambientRandom))
    /\ UNCHANGED <<trustPairs, trustOptions, ambientRandom, exceptTrust, pc>>

NextTrust == AddTrustPair \/ SetTrustOptions \/ AmbientDraw \/ EstimateTrust

SpecTrust == Init /\ [][NextTrust]_vars

\* --------------------------------------------- actions: debug ranking lists
\* a pair of a family no earlier pair of the lane has
AddLanePairOfNewFamily ==
    /\ pc = "collect"
    /\ lanePairCount < MaxRankPairs
    /\ laneFamilyCount < MaxRankFamilies
    /\ lanePairCount' = lanePairCount + 1
    /\ laneFamilyCount' = laneFamilyCount + 1
    /\ UNCHANGED <<debugLimits, laneRankings, exceptRank, pc>>

\* a pair of a family an earlier pair of the lane has
AddLanePairOfKnownFamily ==
    /\ pc = "collect"
    /\ lanePairCount < MaxRankPairs
    /\ laneFamilyCount > 0
    /\ lanePairCount' = lanePairCount + 1
    /\ UNCHANGED <<laneFamilyCount, debugLimits, laneRankings, exceptRank, pc>>

RankLaneDebug ==
    /\ pc = "collect"
    /\ \E limits \in DebugLimitSets :
          /\ debugLimits' = limits
          /\ laneRankings' = LaneRankingLists(laneFamilyCount, lanePairCount,
                                              limits.debugMaxFamilies,
                                              limits.debugMaxPairs)
    /\ pc' = "ranked"
    /\ UNCHANGED <<laneFamilyCount, lanePairCount, exceptRank>>

NextRank == AddLanePairOfNewFamily \/ AddLanePairOfKnownFamily \/ RankLaneDebug

SpecRank == Init /\ [][NextRank]_vars

\* ----------------------------------------------- actions: debug text fields
\* both signatures go on with the same words
AddPlainChunk ==
    /\ pc = "collect"
    /\ Len(rawSignatures[1]) < MaxChunks
    /\ \E c \in PlainChunks :
          rawSignatures' = <<Append(rawSignatures[1], c), Append(rawSignatures[2], c)>>
    /\ UNCHANGED <<debugTexts, exceptText, pc>>

\* both signatures go on with a credential or a home path of the same form
AddSecretChunk ==
    /\ pc = "collect"
    /\ Len(rawSignatures[1]) < MaxChunks
    /\ \E cs \in SecretChunkPairs :
          rawSignatures' =
              <<Append(rawSignatures[1], cs[1]), Append(rawSignatures[2], cs[2])>>
    /\ UNCHANGED <<debugTexts, exceptText, pc>>

\* pairs.map of buildTrajectoryLaneDebug on one pair of either input; the
\* pair has the id "pair-1" or none
BuildDebugTexts ==
    /\ pc = "collect"
    /\ \E pairId \in {{}, {"pair-1"}} :
          debugTexts' = <<DebugPairText(rawSignatures[1], 1, pairId),
                          DebugPairText(rawSignatures[2], 1, pairId)>>
    /\ pc' = "sanitized"
    /\ UNCHANGED <<rawSignatures, exceptText>>

NextText == AddPlainChunk \/ AddSecretChunk \/ BuildDebugTexts

SpecText == Init /\ [][NextText]_vars

\* -------------------------------------------- actions: holdout family overlap
\* main() summarizes the family overlap of the train and the eval episodes
SummarizeHoldoutOverlap ==
    /\ pc = "collect"
    /\ holdoutOverlap' = summarizeFamilyOverlap(trainEpisodes, evalEpisodes)
    /\ pc' = "overlapped"
    /\ UNCHANGED exceptOverlap

NextOverlap == AddTrainEpisode \/ AddEvalEpisode \/ SummarizeHoldoutOverlap

SpecOverlap == Init /\ [][NextOverlap]_vars

\* ------------------------------------------------ actions: episode extractor
\* the next trace event in time order
AddTraceEvent ==
    /\ pc = "collect"
    /\ extractions = <<>>
    /\ Len(traceEvents) < MaxTraceEvents
    /\ \E s \in TraceSessionIds, k \in TraceEventKinds :
          traceEvents' = Append(traceEvents,
              [id |-> Len(traceEvents) + 1, sessionId |-> s, kind |-> k])
    /\ UNCHANGED <<extractions, exceptExtract, pc>>

\* one extraction over the trace events
ExtractEpisodes ==
    /\ pc = "collect"
    /\ Len(extractions) < 2
    /\ extractions' = Append(extractions, extractObservedAbEpisodes(traceEvents))
    /\ UNCHANGED <<traceEvents, exceptExtract, pc>>

NextExtract == AddTraceEvent \/ ExtractEpisodes

SpecExtract == Init /\ [][NextExtract]_vars

\* --------------------------------------------- actions: lexical index
Upsert ==
    /\ pc = "collect"
    /\ \E id \in SingleDocumentIds, text \in DocumentTexts, md \in DocumentMetadata :
          LET next == upsert([documents |-> documents, postings |-> postings],
                             Document(id, text, md))
          IN  /\ documents' = next.documents
              /\ postings' = next.postings
              /\ replacedDocument' =
                    IF id \in DOMAIN documents
                    THEN {[id |-> id, text |-> documents[id].text]}
                    ELSE replacedDocument
    /\ UNCHANGED <<searchQuery, searchResults, exceptIndex, pc>>

\* upsertMany of DefaultSearchLimit + 1 documents of one text
UpsertMany ==
    /\ pc = "collect"
    /\ \E text \in DocumentTexts :
          LET docs == [i \in 1..(DefaultSearchLimit + 1) |->
                          Document(<<"bulk", i>>, text, {})]
              next == upsertMany([documents |-> documents, postings |-> postings],
                                 docs)
          IN  /\ documents' = next.documents
              /\ postings' = next.postings
    /\ UNCHANGED <<searchQuery, searchResults, replacedDocument, exceptIndex, pc>>

Search ==
    /\ pc = "collect"
    /\ \E text \in QueryTexts, filters \in QueryFilters, limit \in QueryLimits :
          LET query == [text |-> text, filters |-> filters, limit |-> limit]
          IN  /\ searchQuery' = query
              /\ searchResults' =
                    search([documents |-> documents, postings |-> postings], query)
    /\ pc' = "searched"
    /\ UNCHANGED <<documents, postings, replacedDocument, exceptIndex>>

NextIndex == Upsert \/ UpsertMany \/ Search

SpecIndex == Init /\ [][NextIndex]_vars

\* ----------------------------------------------- actions: wrong-turn miner
Ingest ==
    /\ pc = "collect"
    /\ minings = <<>>
    /\ ingestCalls < MaxIngestCalls
    /\ \E kind \in EventKinds, s \in MinerSessionIds :
          eventsBySession' = ingestRun(eventsBySession, kind, s, 1)
    /\ ingestCalls' = ingestCalls + 1
    /\ UNCHANGED <<mineLimit, minings, exceptMiner, pc>>

\* LOOKAHEAD_RESULTS - 1 or LOOKAHEAD_RESULTS ingest calls of events of one
\* kind for session-a
IngestRun ==
    /\ pc = "collect"
    /\ minings = <<>>
    /\ ingestCalls < MaxIngestCalls
    /\ \E kind \in RunEventKinds,
          count \in {LOOKAHEAD_RESULTS - 1, LOOKAHEAD_RESULTS} :
          eventsBySession' = ingestRun(eventsBySession, kind, "session-a", count)
    /\ ingestCalls' = ingestCalls + 1
    /\ UNCHANGED <<mineLimit, minings, exceptMiner, pc>>

\* mine(limit); a second call has the limit of the first
Mine ==
    /\ pc = "collect"
    /\ Len(minings) < 2
    /\ \E limit \in {{}, {0}, {1}} :
          /\ minings # <<>> => limit = mineLimit
          /\ mineLimit' = limit
          /\ minings' = Append(minings, mine(eventsBySession, limit))
    /\ UNCHANGED <<eventsBySession, ingestCalls, exceptMiner, pc>>

NextMiner == Ingest \/ IngestRun \/ Mine

SpecMiner == Init /\ [][NextMiner]_vars

\* ------------------------------------------------ actions: remote team auth
\* the clock moves on
Tick ==
    /\ clockMs < MaxClockMs
    /\ clockMs' = clockMs + 1
    /\ resolved' = {}
    /\ UNCHANGED <<cache, lookups, lastLookup, exceptAuth, pc>>

\* resolveTeamId(token) up to its await: the answer of a fresh entry, or the
\* request to the remote
ResolveTeamId ==
    /\ \E token \in AuthTokens :
          IF CachedIsFresh(cache[token], clockMs)
          THEN /\ resolved' = { Resolution(token, clockMs, entry.teamId, 0, FALSE) :
                                    entry \in cache[token] }
               /\ UNCHANGED lookups
          ELSE /\ BagCardinality(lookups) < MaxPendingLookups
               /\ lookups' = lookups (+) SetToBag({PendingLookup(token, clockMs)})
               /\ resolved' = {}
    /\ UNCHANGED <<clockMs, cache, lastLookup, exceptAuth, pc>>

\* resolveTeamId after its await: fetch settles with a response before the
\* timeout has passed, or rejects (at any time for a network error, at the
\* latest when the timeout aborts it)
FetchSettles ==
    /\ \E lookup \in BagToSet(lookups), outcome \in FetchOutcomes :
          /\ outcome.arrives => clockMs <= lookup.nowMs + TimeoutMs
          /\ cache' = CacheAfterLookup(cache, lookup.token, lookup.nowMs, outcome)
          /\ resolved' = {ResolutionAfterLookup(lookup.token, lookup.nowMs, outcome)}
          /\ lastLookup' = [lastLookup EXCEPT ![lookup.token] =
                 {[nowMs |-> lookup.nowMs, outcome |-> LookupOutcome(outcome),
                   teamId |-> IF LookupOutcome(outcome) = "ok"
                              THEN parseRemoteTeamId(outcome.payload) ELSE {}]}]
          /\ lookups' = lookups (-) SetToBag({lookup})
    /\ UNCHANGED <<clockMs, exceptAuth, pc>>

NextAuth == Tick \/ ResolveTeamId \/ FetchSettles

SpecAuth == Init /\ [][NextAuth]_vars

\* ------------------------------------------ actions: Pi session trace events
\* one more record of the session file
AddPiRecord ==
    /\ pc = "collect"
    /\ Len(piRecords) < MaxPiRecords
    /\ \E kind \in PiRecordKinds :
          piRecords' = Append(piRecords, StampedRecord(kind, Len(piRecords) + 1))
    /\ UNCHANGED <<piTraceEvents, exceptPi, pc>>

BuildTraceEvents ==
    /\ pc = "collect"
    /\ piTraceEvents' = {buildTraceEventsFromPiSessionRecords(piRecords, PiToolName)}
    /\ pc' = "built"
    /\ UNCHANGED <<piRecords, exceptPi>>

NextPi == AddPiRecord \/ BuildTraceEvents

SpecPi == Init /\ [][NextPi]_vars

\* ------------------------------------------------------------------ C1
\* C1: after splitSessionsChronologically on at least 2 sessions, every eval
\* session starts at or after every train session (ties on startedAt are
\* ordered by sessionId): no eval session precedes a train session.
EvalNeverPrecedesTrain ==
    (pc = "split" /\ Len(sessions) >= 2) =>
        \A e \in Range(holdout.evalSessions), t \in Range(holdout.trainSessions) :
            /\ e.startedAt >= t.startedAt
            /\ (e.startedAt = t.startedAt => e.sessionId >= t.sessionId)

\* a split of unsorted input with a tie on startedAt across the boundary
EvalNeverPrecedesTrainWitness ==
    /\ pc = "split"
    /\ Len(sessions) = 3
    /\ sessions[1].startedAt > sessions[3].startedAt
    /\ Len(holdout.evalSessions) >= 1
    /\ Len(holdout.trainSessions) >= 1
    /\ \E e \in Range(holdout.evalSessions), t \in Range(holdout.trainSessions) :
          e.startedAt = t.startedAt

\* ------------------------------------------------------------------ C2
SharesTrainFamily(e) ==
    \E i \in 1..Len(trainEpisodes) :
        trainEpisodes[i].familySignature = e.familySignature

\* C2: the slice holds exactly the eval episodes whose family signature occurs
\* in no train episode (none with a seen family kept, none with a novel family
\* dropped, eval order kept), and removedEpisodeCount is the number of eval
\* episodes removed.
SliceIsExactlyNovelEval ==
    pc = "sliced" =>
        /\ \A e \in Range(disjointSlice.episodes) :
              e \in Range(evalEpisodes) /\ ~SharesTrainFamily(e)
        /\ \A e \in Range(evalEpisodes) :
              ~SharesTrainFamily(e) => e \in Range(disjointSlice.episodes)
        /\ \A i, j \in 1..Len(disjointSlice.episodes) :
              i < j => disjointSlice.episodes[i].id[2] < disjointSlice.episodes[j].id[2]
        /\ disjointSlice.stats.removedEpisodeCount =
              Cardinality({ i \in 1..Len(evalEpisodes) : SharesTrainFamily(evalEpisodes[i]) })

\* a slice that removed some eval episodes (of a family seen by a later train
\* episode) and kept others
SliceIsExactlyNovelEvalWitness ==
    /\ pc = "sliced"
    /\ Len(trainEpisodes) >= 2
    /\ disjointSlice.stats.removedEpisodeCount >= 2
    /\ Len(disjointSlice.episodes) >= 1
    /\ \E e \in Range(evalEpisodes) :
          /\ e.familySignature = trainEpisodes[2].familySignature
          /\ e.familySignature # trainEpisodes[1].familySignature

\* ------------------------------------------------------------------ C3
EpisodeById(id) == CHOOSE e \in Range(episodes) : e.id = id

PairEpisodeIds == { pairs[i].offEpisodeId : i \in 1..Len(pairs) }
                      \cup { pairs[i].onEpisodeId : i \in 1..Len(pairs) }

\* C3: every pair produced by buildPairs joins an off and an on episode of
\* the input that carry the identical familySignature, which is also the
\* pair's familySignature.
PairSharesFamilySignature ==
    pc = "paired" =>
        \A p \in Range(pairs) :
            /\ \E e \in Range(episodes) : e.id = p.offEpisodeId
            /\ \E e \in Range(episodes) : e.id = p.onEpisodeId
            /\ EpisodeById(p.offEpisodeId).familySignature
                  = EpisodeById(p.onEpisodeId).familySignature
            /\ p.familySignature = EpisodeById(p.offEpisodeId).familySignature

\* a pair was built while an episode of another family was available
PairSharesFamilySignatureWitness ==
    /\ pc = "paired"
    /\ Len(pairs) = 1
    /\ Len(episodes) = 3
    /\ episodes[2].familySignature # episodes[1].familySignature
    /\ pairs[1].offEpisodeId = 1
    /\ pairs[1].onEpisodeId = 3

\* ------------------------------------------------------------------ C4
NoRatioBound(opts) ==
    opts.maxWallTimeRatio = {} /\ opts.maxTokenCountRatio = {}

\* C4: with requireCrossSession no pair joins two episodes of one session, so
\* no pair is built when each family lies in a single session; without it (and
\* minOccurrencesPerFamily <= 2, no ratio bound) two episodes of one family in
\* one session give exactly one pair.
CrossSessionRespected ==
    pc = "paired" =>
        /\ \A p \in Range(pairs) :
              /\ p.offSessionId = EpisodeById(p.offEpisodeId).sessionId
              /\ p.onSessionId = EpisodeById(p.onEpisodeId).sessionId
        /\ pairingOptions.requireCrossSession =>
              \A p \in Range(pairs) : p.offSessionId # p.onSessionId
        /\ ( /\ pairingOptions.requireCrossSession
             /\ \A a, b \in Range(episodes) :
                   a.familySignature = b.familySignature => a.sessionId = b.sessionId )
              => pairs = <<>>
        /\ ( /\ ~pairingOptions.requireCrossSession
             /\ pairingOptions.minOccurrencesPerFamily <= 2
             /\ NoRatioBound(pairingOptions)
             /\ Len(episodes) = 2
             /\ episodes[1].familySignature = episodes[2].familySignature
             /\ episodes[1].sessionId = episodes[2].sessionId )
              => Len(pairs) = 1

\* requireCrossSession skipped the nearest episode (same session) and paired
\* the first episode with a later one of another session
CrossSessionRespectedWitness ==
    /\ pc = "paired"
    /\ pairingOptions.requireCrossSession
    /\ Len(episodes) = 3
    /\ episodes[1].sessionId = episodes[2].sessionId
    /\ episodes[1].familySignature = episodes[2].familySignature
    /\ Len(pairs) = 1
    /\ pairs[1].offEpisodeId = 1
    /\ pairs[1].onEpisodeId = 3

\* ------------------------------------------------------------------ C5
PairsOfFamily(f) == { i \in 1..Len(pairs) : pairs[i].familySignature = f }

Summarized == pc \in {"summarized", "debug"}

\* the sum of a field over the pairs of the stratum
RECURSIVE TotalUpTo(_, _)
TotalUpTo(field, n) ==
    IF n = 0 THEN 0 ELSE stratumPairs[n][field] + TotalUpTo(field, n - 1)

PairTotal(field) == TotalUpTo(field, Len(stratumPairs))

InUnitInterval(x) == x.den > 0 /\ 0 <= x.num /\ x.num <= x.den

\* ------------------------------------------------------------------ C6
\* r is (off - on) / off for off > 0, 0 for off = on = 0, -1 for off = 0 < on,
\* and no division by zero produced it
ReductionMatches(r, off, on) ==
    /\ r.den # 0
    /\ off > 0 => r.num * off = (off - on) * r.den
    /\ (off = 0 /\ on = 0) => r.num = 0
    /\ (off = 0 /\ on > 0) => r.num = -r.den

\* C6: every relative*Reduction field of the aggregate and of every debug
\* family equals (off - on) / off for off > 0, 0 for off = on = 0 and -1 for
\* off = 0 < on, never a division by zero; on the same pairs (one family) the
\* debug report and the aggregate give the same values.
RelativeReductionAsSpecified ==
    /\ Summarized =>
          /\ ReductionMatches(aggregate.relativeHarmfulRetryReduction,
                 aggregate.totalHarmfulRetriesOff, aggregate.totalHarmfulRetriesOn)
          /\ ReductionMatches(aggregate.relativeWallTimeReduction,
                 aggregate.totalWallTimeOffMs, aggregate.totalWallTimeOnMs)
          /\ ReductionMatches(aggregate.relativeTokenCountReduction,
                 aggregate.totalTokenCountOff, aggregate.totalTokenCountOn)
          /\ ReductionMatches(aggregate.relativeTokenProxyReduction,
                 aggregate.totalTokenProxyOff, aggregate.totalTokenProxyOn)
    /\ pc = "debug" =>
          /\ \A i \in DOMAIN debugFamilies :
                LET fam == debugFamilies[i]
                IN  /\ ReductionMatches(fam.deltas.relativeHarmfulRetryReduction,
                           fam.totals.harmfulRetriesOff, fam.totals.harmfulRetriesOn)
                    /\ ReductionMatches(fam.deltas.relativeWallTimeReduction,
                           fam.totals.wallTimeOffMs, fam.totals.wallTimeOnMs)
                    /\ ReductionMatches(fam.deltas.relativeTokenCountReduction,
                           fam.totals.tokenCountOff, fam.totals.tokenCountOn)
          /\ Len(debugFamilies) = 1 =>
                /\ debugFamilies[1].deltas.relativeHarmfulRetryReduction
                      = aggregate.relativeHarmfulRetryReduction
                /\ debugFamilies[1].deltas.relativeWallTimeReduction
                      = aggregate.relativeWallTimeReduction
                /\ debugFamilies[1].deltas.relativeTokenCountReduction
                      = aggregate.relativeTokenCountReduction

\* one report showing the three cases: harmful retries 0 -> positive (-1),
\* token count 0 -> 0 (0), wall time positive -> smaller (a proper quotient)
RelativeReductionAsSpecifiedWitness ==
    /\ pc = "debug"
    /\ Len(stratumPairs) = 2
    /\ Len(debugFamilies) = 1
    /\ aggregate.totalHarmfulRetriesOff = 0
    /\ aggregate.totalHarmfulRetriesOn > 0
    /\ aggregate.totalTokenCountOff = 0
    /\ aggregate.totalTokenCountOn = 0
    /\ aggregate.totalWallTimeOffMs > aggregate.totalWallTimeOnMs
    /\ aggregate.totalWallTimeOnMs > 0

\* ------------------------------------------------------------------ C7
\* c is max(0, retries - abstained) / retries for retries > 0 and 1 otherwise
CoverageMatches(c, totalRetries, totalAbstainedRetries) ==
    /\ c.den # 0
    /\ totalRetries > 0 =>
          c.num * totalRetries = Max(0, totalRetries - totalAbstainedRetries) * c.den
    /\ totalRetries = 0 => c.num = c.den

\* C7: in every aggregate (of at least one pair) judgeableCoverageOff/On is
\* max(0, totalRetries - totalAbstainedRetries) / totalRetries for
\* totalRetries > 0 and 1 for totalRetries = 0, and the debug family of the
\* same pairs reports the same coverage.
JudgeableCoverageAsSpecified ==
    (Summarized /\ Len(stratumPairs) >= 1) =>
        /\ CoverageMatches(aggregate.judgeableCoverageOff,
               aggregate.totalRetriesOff, aggregate.totalAbstainedRetriesOff)
        /\ CoverageMatches(aggregate.judgeableCoverageOn,
               aggregate.totalRetriesOn, aggregate.totalAbstainedRetriesOn)
        /\ (pc = "debug" /\ Len(debugFamilies) = 1) =>
              /\ debugFamilies[1].judgeableCoverage.off = aggregate.judgeableCoverageOff
              /\ debugFamilies[1].judgeableCoverage.on = aggregate.judgeableCoverageOn

\* ------------------------------------------------------------------ C8
TotalsAreNonNegativeSums ==
    /\ aggregate.totalPairs = Len(stratumPairs)
    /\ aggregate.totalRetriesOff = PairTotal("totalRetriesOff")
    /\ aggregate.totalRetriesOn = PairTotal("totalRetriesOn")
    /\ aggregate.totalHarmfulRetriesOff = PairTotal("harmfulRetriesOff")
    /\ aggregate.totalHarmfulRetriesOn = PairTotal("harmfulRetriesOn")
    /\ aggregate.totalBenignRetriesOff = PairTotal("benignRetriesOff")
    /\ aggregate.totalBenignRetriesOn = PairTotal("benignRetriesOn")
    /\ aggregate.totalAbstainedRetriesOff = PairTotal("abstainedRetriesOff")
    /\ aggregate.totalAbstainedRetriesOn = PairTotal("abstainedRetriesOn")
    /\ aggregate.totalWallTimeOffMs = PairTotal("wallTimeOffMs")
    /\ aggregate.totalWallTimeOnMs = PairTotal("wallTimeOnMs")
    /\ aggregate.totalTokenCountOff = PairTotal("tokenCountOff")
    /\ aggregate.totalTokenCountOn = PairTotal("tokenCountOn")
    /\ aggregate.totalTokenProxyOff = PairTotal("tokenProxyOff")
    /\ aggregate.totalTokenProxyOn = PairTotal("tokenProxyOn")
    /\ aggregate.totalCostOffUsd = PairTotal("costOffUsd")
    /\ aggregate.totalCostOnUsd = PairTotal("costOnUsd")
    /\ \A f \in {"totalRetriesOff", "totalRetriesOn", "totalHarmfulRetriesOff",
                  "totalHarmfulRetriesOn", "totalBenignRetriesOff",
                  "totalBenignRetriesOn", "totalAbstainedRetriesOff",
                  "totalAbstainedRetriesOn", "totalWallTimeOffMs",
                  "totalWallTimeOnMs", "totalTokenCountOff", "totalTokenCountOn",
                  "totalTokenProxyOff", "totalTokenProxyOn", "totalCostOffUsd",
                  "totalCostOnUsd"} : aggregate[f] >= 0

\* C8 as claimed: the totals are non-negative sums and all six rate fields
\* (harmfulRetryRate, judgeableCoverage, recoverySuccessRate, Off and On)
\* lie in [0, 1].
EveryRateWithinUnitInterval ==
    Summarized =>
        /\ TotalsAreNonNegativeSums
        /\ InUnitInterval(aggregate.harmfulRetryRateOff)
        /\ InUnitInterval(aggregate.harmfulRetryRateOn)
        /\ InUnitInterval(aggregate.judgeableCoverageOff)
        /\ InUnitInterval(aggregate.judgeableCoverageOn)
        /\ InUnitInterval(aggregate.recoverySuccessRateOff)
        /\ InUnitInterval(aggregate.recoverySuccessRateOn)

\* x is count / totalPairs (0 without pairs) and not negative
IsMeanPerPair(x, count) ==
    /\ x.den > 0
    /\ x.num >= 0
    /\ x.num * Len(stratumPairs) = count * x.den
    /\ Len(stratumPairs) = 0 => x.num = 0

\* C8 amended: the totals are non-negative sums; judgeableCoverageOff/On and
\* recoverySuccessRateOff/On lie in [0, 1]; harmfulRetryRateOff/On is the
\* non-negative number of harmful retries per pair (it can exceed 1).
RatesBoundedExceptHarmfulPerPair ==
    Summarized =>
        /\ TotalsAreNonNegativeSums
        /\ IsMeanPerPair(aggregate.harmfulRetryRateOff, PairTotal("harmfulRetriesOff"))
        /\ IsMeanPerPair(aggregate.harmfulRetryRateOn, PairTotal("harmfulRetriesOn"))
        /\ InUnitInterval(aggregate.judgeableCoverageOff)
        /\ InUnitInterval(aggregate.judgeableCoverageOn)
        /\ InUnitInterval(aggregate.recoverySuccessRateOff)
        /\ InUnitInterval(aggregate.recoverySuccessRateOn)

\* an aggregate with more than one harmful retry per pair, abstained retries
\* outnumbering the retries on the off side and a partial coverage on the on
\* side
RatesBoundedExceptHarmfulPerPairWitness ==
    /\ Summarized
    /\ Len(stratumPairs) = 2
    /\ aggregate.harmfulRetryRateOn.num > aggregate.harmfulRetryRateOn.den
    /\ aggregate.totalAbstainedRetriesOff > aggregate.totalRetriesOff
    /\ aggregate.totalRetriesOff > 0
    /\ aggregate.judgeableCoverageOn.num > 0
    /\ aggregate.judgeableCoverageOn.num < aggregate.judgeableCoverageOn.den

\* ------------------------------------------------------------------ C9
\* -1 <= r <= 1
WithinMinusOneAndOne(r) ==
    /\ r.den > 0
    /\ -r.den <= r.num
    /\ r.num <= r.den

\* C9 as claimed: the four relative*Reduction fields of every aggregate lie
\* in [-1, 1].
ReductionsWithinMinusOneAndOne ==
    Summarized =>
        /\ WithinMinusOneAndOne(aggregate.relativeHarmfulRetryReduction)
        /\ WithinMinusOneAndOne(aggregate.relativeWallTimeReduction)
        /\ WithinMinusOneAndOne(aggregate.relativeTokenCountReduction)
        /\ WithinMinusOneAndOne(aggregate.relativeTokenProxyReduction)

\* r <= 1; r < 0 exactly when on exceeds off; r = -1 for off = 0 < on; and
\* r < -1 when on exceeds twice a positive off
AtMostOneUnboundedBelow(r, off, on) ==
    /\ r.den > 0
    /\ r.num <= r.den
    /\ (r.num < 0) <=> (on > off)
    /\ (off = 0 /\ on > 0) => r.num = -r.den
    /\ (off > 0 /\ on > 2 * off) => r.num < -r.den

\* C9 amended: each of the four relative*Reduction fields is at most 1 and is
\* negative exactly when the on total exceeds the off total; it is -1 for a
\* zero off total with a positive on total and has no lower bound otherwise
\* (below -1 when the on total exceeds twice a positive off total).
ReductionsAtMostOne ==
    Summarized =>
        /\ AtMostOneUnboundedBelow(aggregate.relativeHarmfulRetryReduction,
               PairTotal("harmfulRetriesOff"), PairTotal("harmfulRetriesOn"))
        /\ AtMostOneUnboundedBelow(aggregate.relativeWallTimeReduction,
               PairTotal("wallTimeOffMs"), PairTotal("wallTimeOnMs"))
        /\ AtMostOneUnboundedBelow(aggregate.relativeTokenCountReduction,
               PairTotal("tokenCountOff"), PairTotal("tokenCountOn"))
        /\ AtMostOneUnboundedBelow(aggregate.relativeTokenProxyReduction,
               PairTotal("tokenProxyOff"), PairTotal("tokenProxyOn"))

\* an aggregate whose wall time more than doubled from a positive off total
\* (reduction below -1) while the harmful retries fell to zero (reduction 1)
ReductionsAtMostOneWitness ==
    /\ Summarized
    /\ aggregate.totalWallTimeOffMs > 0
    /\ aggregate.totalWallTimeOnMs > 2 * aggregate.totalWallTimeOffMs
    /\ aggregate.relativeWallTimeReduction.num
          < -aggregate.relativeWallTimeReduction.den
    /\ aggregate.totalHarmfulRetriesOff > 0
    /\ aggregate.totalHarmfulRetriesOn = 0
    /\ aggregate.relativeHarmfulRetryReduction.num
          = aggregate.relativeHarmfulRetryReduction.den

\* ----------------------------------------------------------------- C10
GateCheckOrder ==
    << "pair count", "harmful retry reduction", "wall-time reduction",
       "token-count reduction", "recovery success on", "recovery success drop",
       "judgeable coverage off", "judgeable coverage on" >>

\* x < y for fractions of positive denominator
Below(x, y) == x.num * y.den < y.num * x.den

\* the threshold of a check is broken by the aggregate of the stratum
ThresholdBroken(check) ==
    CASE check = "pair count" ->
           aggregate.totalPairs < thresholds.minPairCount
      [] check = "harmful retry reduction" ->
           Below(aggregate.relativeHarmfulRetryReduction,
                 thresholds.minRelativeHarmfulRetryReduction)
      [] check = "wall-time reduction" ->
           Below(aggregate.relativeWallTimeReduction,
                 thresholds.minRelativeWallTimeReduction)
      [] check = "token-count reduction" ->
           Below(aggregate.relativeTokenCountReduction,
                 thresholds.minRelativeTokenCountReduction)
      [] check = "recovery success on" ->
           Below(aggregate.recoverySuccessRateOn, thresholds.minRecoverySuccessRateOn)
      [] check = "recovery success drop" ->
           \* -absoluteRecoverySuccessRateDelta > maxRecoverySuccessRateDrop
           Below(thresholds.maxRecoverySuccessRateDrop,
                 [num |-> -aggregate.absoluteRecoverySuccessRateDelta.num,
                  den |-> aggregate.absoluteRecoverySuccessRateDelta.den])
      [] check = "judgeable coverage off" ->
           Below(aggregate.judgeableCoverageOff, thresholds.minJudgeableCoverage)
      [] check = "judgeable coverage on" ->
           Below(aggregate.judgeableCoverageOn, thresholds.minJudgeableCoverage)

\* C10: the gate evaluates all eight checks without stopping at a failure; its
\* failures are exactly the broken checks in the order pair count, harmful
\* retry reduction, wall-time reduction, token-count reduction, recovery
\* success on, recovery success drop, judgeable coverage off, judgeable
\* coverage on; pass holds iff there is no failure; the drop check fails iff
\* -absoluteRecoverySuccessRateDelta > maxRecoverySuccessRateDrop.
GateReportsEveryBrokenCheck ==
    Summarized =>
        /\ [i \in 1..Len(gateResult.failures) |-> gateResult.failures[i].check]
              = SelectSeq(GateCheckOrder, ThresholdBroken)
        /\ gateResult.pass <=> (gateResult.failures = <<>>)
        /\ gateResult.pass <=> (\A i \in 1..8 : ~ThresholdBroken(GateCheckOrder[i]))

\* a gate result with several failures, the recovery success drop among them
\* and not first, and at least one check that held
GateReportsEveryBrokenCheckWitness ==
    /\ Summarized
    /\ ~gateResult.pass
    /\ Len(gateResult.failures) >= 3
    /\ Len(gateResult.failures) < 8
    /\ \E i \in 2..Len(gateResult.failures) :
          gateResult.failures[i].check = "recovery success drop"
    /\ \E i \in 1..8 : ~ThresholdBroken(GateCheckOrder[i])

\* ----------------------------------------------------------------- C11
AggregateTotalFields ==
    {"totalPairs", "totalRetriesOff", "totalRetriesOn", "totalHarmfulRetriesOff",
     "totalHarmfulRetriesOn", "totalBenignRetriesOff", "totalBenignRetriesOn",
     "totalAbstainedRetriesOff", "totalAbstainedRetriesOn", "totalWallTimeOffMs",
     "totalWallTimeOnMs", "totalTokenCountOff", "totalTokenCountOn",
     "totalTokenProxyOff", "totalTokenProxyOn", "totalCostOffUsd",
     "totalCostOnUsd"}

AggregateQuotientFields ==
    {"harmfulRetryRateOff", "harmfulRetryRateOn", "judgeableCoverageOff",
     "judgeableCoverageOn", "recoverySuccessRateOff", "recoverySuccessRateOn",
     "relativeHarmfulRetryReduction", "relativeWallTimeReduction",
     "relativeTokenCountReduction", "relativeTokenProxyReduction",
     "absoluteRecoverySuccessRateDelta"}

\* C11: for an empty pair list the aggregate is defined (no division by zero
\* produced a field) and every total, rate and reduction is 0; the gate with
\* minPairCount >= 1 then fails and its first reason names the pair count.
EmptyStratumIsAllZeroAndFailsPairCount ==
    (Summarized /\ stratumPairs = <<>>) =>
        /\ DOMAIN aggregate = AggregateTotalFields \cup AggregateQuotientFields
        /\ \A f \in AggregateTotalFields : aggregate[f] = 0
        /\ \A f \in AggregateQuotientFields :
              aggregate[f].den # 0 /\ aggregate[f].num = 0
        /\ thresholds.minPairCount >= 1 =>
              /\ ~gateResult.pass
              /\ gateResult.failures # <<>>
              /\ gateResult.failures[1] =
                    [check |-> "pair count", observed |-> 0,
                     bound |-> thresholds.minPairCount]

\* an empty stratum summarized under a threshold set that asks for two pairs
EmptyStratumIsAllZeroAndFailsPairCountWitness ==
    /\ Summarized
    /\ stratumPairs = <<>>
    /\ thresholds.minPairCount = 2
    /\ ~gateResult.pass
    /\ gateResult.failures[1].check = "pair count"

\* ----------------------------------------------------------------- C12
Gated == pc \in {"gated", "exited"}

\* no overlap-rate cap is configured, or overlapRateByEvalFamilies <= the cap
OverlapRateCapMet ==
    \/ options.maxOverlapRateByEvalFamilies = {}
    \/ \A c \in options.maxOverlapRateByEvalFamilies :
          familyOverlap.overlapRateByEvalFamilies.num * c.den
              <= c.num * familyOverlap.overlapRateByEvalFamilies.den

FamilyDisjointPairCountMet ==
    laneReports.family_disjoint_eval.totalPairs >= options.minFamilyDisjointPairCount

\* the names of the reasons for the two extra constraints that are unmet
ExtraReasonsExpected ==
    (IF OverlapRateCapMet THEN <<>> ELSE <<"family overlap rate">>)
    \o (IF FamilyDisjointPairCountMet THEN <<>> ELSE <<"family-disjoint pair count">>)

\* C12: the overall gate passes iff the primary lane's gate passes, the
\* overlap rate is within the cap (or no cap is set) and the family-disjoint
\* lane has at least minFamilyDisjointPairCount pairs, whichever lane is
\* primary; its failures are the primary lane's failures followed by one
\* reason per unmet extra constraint, so pass holds iff failures is empty.
OverallGateFoldsExtraConstraints ==
    Gated =>
        LET primary == laneReports[options.primaryLane].gateResult
            n == Len(primary.failures)
            failures == overallGateResult.failures
        IN  /\ overallGateResult.pass <=>
                  (primary.pass /\ OverlapRateCapMet /\ FamilyDisjointPairCountMet)
            /\ Len(failures) = n + Len(ExtraReasonsExpected)
            /\ SubSeq(failures, 1, n) = primary.failures
            /\ \A i \in 1..Len(ExtraReasonsExpected) :
                  failures[n + i].check = ExtraReasonsExpected[i]
            /\ overallGateResult.pass <=> (failures = <<>>)

\* the full lane is primary and passes, while the cap is exceeded and the
\* family-disjoint lane is short of pairs: two reasons, both from the extras
OverallGateFoldsExtraConstraintsWitness ==
    /\ Gated
    /\ options.primaryLane = "full_eval"
    /\ laneReports.full_eval.gateResult.pass
    /\ ~OverlapRateCapMet
    /\ ~FamilyDisjointPairCountMet
    /\ ~overallGateResult.pass
    /\ Len(overallGateResult.failures) = 2

\* ----------------------------------------------------------------- C13
\* the exit codes whose condition is violated: 3 family overlap present under
\* --strict-no-family-overlap, 4 overlap rate above the explicit cap, 2 gate
\* failed under --strict
ApplicableExitCodes ==
    (IF options.strictNoFamilyOverlap /\ familyOverlap.overlappingFamilyCount > 0
     THEN {3} ELSE {})
    \cup (IF ~OverlapRateCapMet THEN {4} ELSE {})
    \cup (IF options.strict /\ ~overallGateResult.pass THEN {2} ELSE {})

\* C13 as claimed: the exit code is 0 when no condition is violated (a failed
\* gate without --strict included) and otherwise the lowest applicable
\* non-zero code among 2, 3 and 4.
ExitCodeIsLowestApplicable ==
    pc = "exited" =>
        /\ (ApplicableExitCodes = {}) => exitCode = 0
        /\ (ApplicableExitCodes # {}) =>
              /\ exitCode \in ApplicableExitCodes
              /\ \A c \in ApplicableExitCodes : exitCode <= c

\* C13 amended: the exit code is 0 when no condition is violated (a failed
\* gate without --strict and without another violated condition included);
\* otherwise it is the code of the first violated condition in the precedence
\* order strict-overlap (3), overlap-rate (4), strict-gate (2), which is not
\* the lowest applicable code when 3 or 4 applies together with 2.
ExitCodeFollowsPrecedence ==
    pc = "exited" =>
        /\ exitCode = (IF 3 \in ApplicableExitCodes THEN 3
                       ELSE IF 4 \in ApplicableExitCodes THEN 4
                       ELSE IF 2 \in ApplicableExitCodes THEN 2
                       ELSE 0)
        /\ (exitCode = 0) <=> (ApplicableExitCodes = {})
        /\ (~options.strict /\ ~overallGateResult.pass
              /\ ApplicableExitCodes = {}) => exitCode = 0

\* the cap is exceeded and the gate failed under --strict with no
\* zero-tolerance flag: codes 4 and 2 apply and 4 is returned
ExitCodeFollowsPrecedenceWitness ==
    /\ pc = "exited"
    /\ ApplicableExitCodes = {2, 4}
    /\ exitCode = 4

\* ----------------------------------------------------------------- C14
RECURSIVE SumEpisodeCounts(_)
SumEpisodeCounts(summaries) ==
    IF summaries = <<>> THEN 0
    ELSE Head(summaries).episodeCount + SumEpisodeCounts(Tail(summaries))

\* the input episodes that belong to the stratum of a key
EpisodesOfStratum(dimension, key) ==
    { e \in Range(strataEpisodes) : EpisodeKey(dimension, e, SessionModelKeys) = key }

\* C14: in each of the three dimensions the strata partition the input
\* episodes: every episode belongs to exactly one stratum of the list, each
\* stratum counts exactly its own episodes (so the union of the strata is the
\* input set), and the episodeCount values sum to the number of episodes.
StrataPartitionEpisodes ==
    pc = "strata" =>
        \A d \in StratumDimensions :
            /\ \A i, j \in 1..Len(strata[d]) :
                  strata[d][i].key = strata[d][j].key => i = j
            /\ \A e \in Range(strataEpisodes) :
                  Cardinality({ i \in 1..Len(strata[d]) :
                      e \in EpisodesOfStratum(d, strata[d][i].key) }) = 1
            /\ \A i \in 1..Len(strata[d]) :
                  strata[d][i].episodeCount
                      = Cardinality(EpisodesOfStratum(d, strata[d][i].key))
            /\ UNION { EpisodesOfStratum(d, strata[d][i].key) :
                          i \in 1..Len(strata[d]) } = Range(strataEpisodes)
            /\ SumEpisodeCounts(strata[d]) = Len(strataEpisodes)

\* three episodes, two of them in one session and one model stratum, a pair
\* across two models whose `mixed` stratum holds no episode
StrataPartitionEpisodesWitness ==
    /\ pc = "strata"
    /\ Len(strataEpisodes) = 3
    /\ Len(strataPairs) = 1
    /\ Len(strata.model) = 3
    /\ \E i \in 1..3 : strata.model[i].episodeCount = 2
                       /\ strata.model[i].sessionCount = 1
    /\ \E i \in 1..3 : strata.model[i].episodeCount = 0
                       /\ strata.model[i].pairCount = 1
    /\ Len(strata.toolSurface) = 2

\* ----------------------------------------------------------------- C15
\* left comes strictly before right: more pairs, or as many pairs and more
\* episodes, or as many of both and the smaller key
StratumPrecedes(left, right) ==
    \/ left.pairCount > right.pairCount
    \/ /\ left.pairCount = right.pairCount
       /\ left.episodeCount > right.episodeCount
    \/ /\ left.pairCount = right.pairCount
       /\ left.episodeCount = right.episodeCount
       /\ KeyLess(left.key, right.key)

IndexPermutations(n) ==
    { f \in [1..n -> 1..n] : \A i, j \in 1..n : f[i] = f[j] => i = j }

\* key, pairCount and episodeCount of each stratum, in order
StratumOrder(summaries) ==
    [i \in 1..Len(summaries) |->
        <<summaries[i].key, summaries[i].pairCount, summaries[i].episodeCount>>]

\* the strata of a dimension for the given supply order, as summarizeDimension
\* files, counts and sorts them (their aggregates are sums and play no part
\* in the order)
StrataOrderFor(dimension, eps, ps) ==
    LET keys == DimensionKeys(dimension, eps, ps, SessionModelKeys)
    IN  StratumOrder(sortTrajectoryStrata(
            [i \in 1..Len(keys) |->
                [key |-> keys[i],
                 pairCount |-> Len(SelectSeq(ps,
                     LAMBDA p : PairKey(dimension, p, SessionModelKeys) = keys[i])),
                 episodeCount |-> Cardinality(
                     StratumEpisodeIds(dimension, keys[i], eps, SessionModelKeys))]]))

\* C15: each stratum list is totally ordered by descending pairCount, then
\* descending episodeCount, then ascending key, and supplying the episodes and
\* the pairs in any other order yields the strata in the same order.
StrataOrderIsCanonical ==
    pc = "strata" =>
        /\ \A d \in StratumDimensions :
              \A i, j \in 1..Len(strata[d]) :
                  i < j => StratumPrecedes(strata[d][i], strata[d][j])
        /\ \A f \in IndexPermutations(Len(strataEpisodes)),
              g \in IndexPermutations(Len(strataPairs)) :
              \A d \in StratumDimensions :
                  StrataOrderFor(d,
                      [i \in 1..Len(strataEpisodes) |-> strataEpisodes[f[i]]],
                      [i \in 1..Len(strataPairs) |-> strataPairs[g[i]]])
                  = StratumOrder(strata[d])

\* three model-by-surface strata tie on pairs and on episodes and the one
\* filed first (the first episode's) comes second, by its key; the model and
\* the tool surface filed first come second, having fewer episodes
StrataOrderIsCanonicalWitness ==
    /\ pc = "strata"
    /\ Len(strata.modelToolSurface) = 3
    /\ \A i \in 1..3 : strata.modelToolSurface[i].pairCount = 0
                       /\ strata.modelToolSurface[i].episodeCount = 1
    /\ EpisodeKey("modelToolSurface", strataEpisodes[1], SessionModelKeys)
          = strata.modelToolSurface[2].key
    /\ Len(strata.toolSurface) = 2
    /\ strata.toolSurface[1].pairCount = strata.toolSurface[2].pairCount
    /\ strata.toolSurface[1].episodeCount > strata.toolSurface[2].episodeCount
    /\ EpisodeKey("toolSurface", strataEpisodes[1], SessionModelKeys)
          = strata.toolSurface[2].key

\* ----------------------------------------------------------------- C16
Clamp(x, lo, hi) == IF x < lo THEN lo ELSE IF x > hi THEN hi ELSE x

\* round(n * c) for c in hundredths: the integer k with k - 0.5 <= n * c / 100
\* < k + 0.5 (a half rounds up)
RoundedProduct(n, c) ==
    CHOOSE k \in 0..n : 100 * k - 50 <= n * c /\ n * c < 100 * k + 50

\* C16: for n > 1 sessions and any ratio r the split has exactly
\* clamp(round(n * clamp(r, 0.05, 0.95)), 1, n - 1) eval sessions and the
\* remaining sessions in train, and reports evalRatio = clamp(r, 0.05, 0.95).
SplitCountsFollowRatio ==
    (pc = "split" /\ Len(sessions) > 1) =>
        LET n == Len(sessions)
            c == Clamp(requestedEvalRatio, 5, 95)
            evalCount == Clamp(RoundedProduct(n, c), 1, n - 1)
        IN  /\ Len(holdout.evalSessions) = evalCount
            /\ Len(holdout.trainSessions) = n - evalCount
            /\ holdout.evalRatio = c

\* three sessions at ratio 0.5: 1.5 rounds up to 2 eval sessions
SplitCountsFollowRatioWitness ==
    /\ pc = "split"
    /\ Len(sessions) = 3
    /\ requestedEvalRatio = 50
    /\ Len(holdout.evalSessions) = 2
    /\ Len(holdout.trainSessions) = 1

\* ----------------------------------------------------------------- C17
\* C17: with fewer than 2 sessions (0 or 1) every session is assigned to
\* train and the eval set is empty, for every evalRatio.
FewerThanTwoSessionsAllTrain ==
    (pc = "split" /\ Len(sessions) < 2) =>
        /\ holdout.trainSessions = sessions
        /\ holdout.evalSessions = <<>>

\* a single session split at the largest ratio
FewerThanTwoSessionsAllTrainWitness ==
    /\ pc = "split"
    /\ Len(sessions) = 1
    /\ requestedEvalRatio = 150
    /\ Len(holdout.trainSessions) = 1
    /\ holdout.evalSessions = <<>>

FamilyRankings ==
    {"topFamiliesByPairCount", "worstFamiliesByHarmfulRetryReduction",
     "worstFamiliesByWallTimeReduction", "worstFamiliesByTokenCountReduction"}

PairRankings ==
    {"worstPairsByHarmfulRetriesDelta", "worstPairsByWallTimeDelta",
     "worstPairsByTokenCountDelta"}

\* C19 as stated: every family ranking holds min(25, families) entries and
\* every pair ranking min(50, pairs) entries, whatever debugMaxFamilies and
\* debugMaxPairs are.
RankingSizesIgnoreDebugLimits ==
    pc = "ranked" =>
        /\ \A l \in FamilyRankings :
              Len(laneRankings[l]) = Min(RankedFamilyCap, laneFamilyCount)
        /\ \A l \in PairRankings :
              Len(laneRankings[l]) = Min(RankedPairCap, lanePairCount)

\* the size a ranking over count entries has under a fixed cap and a
\* debug limit (0: no limit)
RankingSize(count, cap, debugMax) ==
    IF debugMax = 0 THEN Min(cap, count) ELSE Min(Min(cap, debugMax), count)

\* C19: every family ranking holds the first min(25, families) entries of
\* its order and every pair ranking the first min(50, pairs), except that a
\* positive debugMaxFamilies / debugMaxPairs below that size cuts the list
\* to the debug limit; a limit of 0 leaves the fixed cap alone.
RankingSizesFollowCapAndDebugLimit ==
    pc = "ranked" =>
        /\ \A l \in FamilyRankings :
              laneRankings[l]
                  = SortedEntries(RankingSize(laneFamilyCount, RankedFamilyCap,
                                              debugLimits.debugMaxFamilies))
        /\ \A l \in PairRankings :
              laneRankings[l]
                  = SortedEntries(RankingSize(lanePairCount, RankedPairCap,
                                              debugLimits.debugMaxPairs))

\* more families than the fixed cap with no debug limit, more pairs than
\* the pair limit with a limit below the fixed cap
RankingSizesFollowCapAndDebugLimitWitness ==
    /\ pc = "ranked"
    /\ laneFamilyCount > RankedFamilyCap
    /\ debugLimits.debugMaxFamilies = 0
    /\ Len(laneRankings.topFamiliesByPairCount) = RankedFamilyCap
    /\ Len(laneRankings.families) = laneFamilyCount
    /\ lanePairCount > RankedPairCap
    /\ debugLimits.debugMaxPairs = 10
    /\ Len(laneRankings.worstPairsByWallTimeDelta) = 10

\* ----------------------------------------------------------------- C20
\* a chunk of an emitted text shows a credential or a user name
ShowsSecret(c) ==
    CASE c.kind = "bearer" -> c.value \in SecretValues
      [] c.kind = "keyvalue" -> c.value \in SecretValues
      [] c.kind = "path" -> c.name \in UserNames
      [] c.kind = "cut" ->
            /\ c.of.kind = "keyvalue"
            /\ c.of.value \in SecretValues
            /\ c.keep > TextLength(c.of.key) + 1
      [] OTHER -> FALSE

CarriesSecretInClear(text) == \E i \in DOMAIN text : ShowsSecret(text[i])

\* C20: no family signature text of the debug report shows a credential or
\* a home-directory user name, and two inputs that differ only in such
\* content give the same text fields (pairId, familyId, familySignature,
\* toolSurface).
DebugTextsHideSecretContent ==
    pc = "sanitized" =>
        /\ \A i \in 1..2 : ~CarriesSecretInClear(debugTexts[i].familySignature)
        /\ debugTexts[1] = debugTexts[2]

\* C20, its sanitized texts only: with keys the pattern recognizes, the two
\* family signature texts are equal and show no secret content
SanitizedSignaturesAgree ==
    (/\ pc = "sanitized"
     /\ \A i \in DOMAIN rawSignatures[1] :
           rawSignatures[1][i].kind = "keyvalue" =>
               KeyIsRecognized(rawSignatures[1][i].key))
    => /\ debugTexts[1].familySignature = debugTexts[2].familySignature
       /\ ~CarriesSecretInClear(debugTexts[1].familySignature)

\* C20, its identifiers only: the two family ids are equal
FamilyIdsAgree ==
    pc = "sanitized" => debugTexts[1].familyId = debugTexts[2].familyId

\* ----------------------------------------------------------------- C21
\* the family signatures that occur among episodes
SignaturesAmong(eps) ==
    { f \in Families : \E i \in DOMAIN eps : eps[i].familySignature = f }

\* a rate equals count / total, or 0 when total is 0
IsRateOf(rate, count, total) ==
    /\ rate.den > 0
    /\ IF total = 0 THEN rate.num = 0 ELSE rate.num * total = count * rate.den
    /\ 0 <= rate.num
    /\ rate.num <= rate.den

\* C21: summarizeFamilyOverlap reports the numbers of distinct family
\* signatures of the train and of the eval episodes, the size of their
\* intersection, that size divided by each count (0 for a count of 0, so
\* both rates lie in [0,1]), and the intersection as an ascending list
\* without duplicates.
FamilyOverlapAsSpecified ==
    pc = "overlapped" =>
        LET trainSignatures == SignaturesAmong(trainEpisodes)
            evalSignatures == SignaturesAmong(evalEpisodes)
            common == trainSignatures \cap evalSignatures
            listed == holdoutOverlap.overlappingFamilies
        IN  /\ holdoutOverlap.trainFamilyCount = Cardinality(trainSignatures)
            /\ holdoutOverlap.evalFamilyCount = Cardinality(evalSignatures)
            /\ holdoutOverlap.overlappingFamilyCount = Cardinality(common)
            /\ IsRateOf(holdoutOverlap.overlapRateByEvalFamilies,
                        Cardinality(common), Cardinality(evalSignatures))
            /\ IsRateOf(holdoutOverlap.overlapRateByTrainFamilies,
                        Cardinality(common), Cardinality(trainSignatures))
            /\ { listed[i] : i \in DOMAIN listed } = common
            /\ \A i \in DOMAIN listed, j \in DOMAIN listed :
                  i < j => FamilyRank(listed[i]) < FamilyRank(listed[j])

\* repeated signatures on both sides, two shared families filed by eval in
\* descending order, and different counts on the two sides
FamilyOverlapAsSpecifiedWitness ==
    /\ pc = "overlapped"
    /\ Len(trainEpisodes) = 3
    /\ holdoutOverlap.trainFamilyCount = 2
    /\ holdoutOverlap.evalFamilyCount = 3
    /\ holdoutOverlap.overlappingFamilies = <<"git push", "npm run test">>
    /\ evalEpisodes[1].familySignature = "pytest -q"
    /\ evalEpisodes[2].familySignature = "npm run test"
    /\ evalEpisodes[3].familySignature = "git push"
    /\ holdoutOverlap.overlapRateByEvalFamilies = Frac(2, 3)
    /\ holdoutOverlap.overlapRateByTrainFamilies = Frac(2, 2)

\* ----------------------------------------------------------------- C22
FailuresOfSessionBetween(sessionId, from, to) ==
    { k \in from..to : /\ k \in DOMAIN traceEvents
                       /\ traceEvents[k].sessionId = sessionId
                       /\ traceEvents[k].kind = "failure" }

\* C22: no event is the triggering failure of two episodes, the episodes of
\* a session do not overlap, every failure of the session from the trigger
\* up to the resolving success is a retry of that one episode, and a second
\* extraction of the same events gives the same episodes.
ExtractionOpensOneEpisodePerFailureRun ==
    /\ \A n \in DOMAIN extractions :
          LET eps == extractions[n]
          IN  /\ \A i \in DOMAIN eps :
                    /\ traceEvents[eps[i].trigger].kind = "failure"
                    /\ traceEvents[eps[i].trigger].sessionId = eps[i].sessionId
                    /\ eps[i].startedAt <= eps[i].endedAt
                    /\ eps[i].success =>
                          /\ traceEvents[eps[i].endedAt].kind = "success"
                          /\ traceEvents[eps[i].endedAt].sessionId = eps[i].sessionId
                          /\ eps[i].retries =
                                Cardinality(FailuresOfSessionBetween(
                                    eps[i].sessionId, eps[i].startedAt, eps[i].endedAt))
              /\ \A i \in DOMAIN eps, j \in DOMAIN eps :
                    i # j =>
                       /\ eps[i].trigger # eps[j].trigger
                       /\ eps[i].sessionId = eps[j].sessionId =>
                             \/ eps[i].endedAt < eps[j].startedAt
                             \/ eps[j].endedAt < eps[i].startedAt
    /\ Len(extractions) = 2 => extractions[1] = extractions[2]

\* two failures and then a success in session-a, with an event of session-b
\* in between: one episode with retries = 2 for session-a, extracted twice
ExtractionOpensOneEpisodePerFailureRunWitness ==
    /\ Len(extractions) = 2
    /\ Len(traceEvents) = 4
    /\ EventsOfSession(traceEvents, "session-a")
          = <<[id |-> 1, sessionId |-> "session-a", kind |-> "failure"],
              [id |-> 2, sessionId |-> "session-a", kind |-> "failure"],
              [id |-> 4, sessionId |-> "session-a", kind |-> "success"]>>
    /\ traceEvents[3].kind = "failure"
    /\ Len(extractions[1]) = 2
    /\ extractions[1][1].retries = 2
    /\ extractions[1][1].success
    /\ ~extractions[1][2].success

\* ----------------------------------------------------------------- C23
\* the lowercased words of more than one character that two texts share
SharedTerms(text, other) ==
    { ToLowerCase(text[i]) : i \in DOMAIN text }
        \cap { ToLowerCase(other[i]) : i \in DOMAIN other }
        \cap { w \in IndexWords : WordLength(w) > 1 }

FiltersHold(document, filters) ==
    \A fs \in filters :
        /\ document.metadata # {}
        /\ \A md \in document.metadata : fs \subseteq md

SearchLimitOf(query) ==
    IF query.limit = {} THEN DefaultSearchLimit ELSE CHOOSE l \in query.limit : TRUE

\* C23: search returns only stored documents that share a term with the
\* query and whose metadata equals every key/value of the filters (none
\* without metadata under filters), in non-increasing score order, at most
\* limit (default 10) of them, and nothing for a query without a token.
SearchReturnsOnlyMatchingDocuments ==
    pc = "searched" =>
        /\ \A i \in DOMAIN searchResults :
              LET document == searchResults[i].document
              IN  /\ document.id \in DOMAIN documents
                  /\ documents[document.id] = document
                  /\ SharedTerms(document.text, searchQuery.text) # {}
                  /\ FiltersHold(document, searchQuery.filters)
        /\ \A i \in DOMAIN searchResults, j \in DOMAIN searchResults :
              i < j => searchResults[i].score >= searchResults[j].score
        /\ Len(searchResults) <= SearchLimitOf(searchQuery)
        /\ SharedTerms(searchQuery.text, searchQuery.text) = {} => searchResults = <<>>

\* a filtered query that leaves out a document of another scope and the
\* documents without metadata, although they contain a query term
SearchReturnsOnlyMatchingDocumentsWitness ==
    /\ pc = "searched"
    /\ searchQuery.filters = {{<<"scope", "personal">>}}
    /\ searchQuery.limit = {}
    /\ Len(searchResults) = 1
    /\ searchResults[1].document.id = <<"doc", 2>>
    /\ <<"doc", 1>> \in DOMAIN documents
    /\ documents[<<"doc", 1>>].metadata = {{<<"scope", "team">>}}
    /\ SharedTerms(documents[<<"doc", 1>>].text, searchQuery.text) # {}
    /\ <<"bulk", 1>> \in DOMAIN documents
    /\ SharedTerms(documents[<<"bulk", 1>>].text, searchQuery.text) # {}

\* the default limit cuts the results: 10 of more than 10 matching documents
SearchDefaultLimitWitness ==
    /\ pc = "searched"
    /\ searchQuery.limit = {}
    /\ Len(searchResults) = DefaultSearchLimit
    /\ Cardinality({ id \in DOMAIN documents :
                        SharedTerms(documents[id].text, searchQuery.text) # {} })
          > DefaultSearchLimit

\* ----------------------------------------------------------------- C29
\* the terms of the stored version of a document
TermsOfStored(id) ==
    { ToLowerCase(documents[id].text[i]) : i \in DOMAIN documents[id].text }
        \cap { w \in IndexWords : WordLength(w) > 1 }

OccurrencesInStored(id, term) ==
    Cardinality({ i \in DOMAIN documents[id].text :
                     ToLowerCase(documents[id].text[i]) = term })

\* C29: the postings describe exactly the stored version of every document:
\* a term has a posting map exactly when a stored document contains it, the
\* map is never empty, it holds one entry per such document with the
\* number of occurrences, and no search result rests only on a term of a
\* replaced version.
PostingsDescribeStoredDocuments ==
    /\ DOMAIN postings = UNION { TermsOfStored(id) : id \in DOMAIN documents }
    /\ \A term \in DOMAIN postings :
          /\ postings[term] # <<>>
          /\ \A i \in DOMAIN postings[term], j \in DOMAIN postings[term] :
                i # j => postings[term][i].key # postings[term][j].key
          /\ { postings[term][i].key : i \in DOMAIN postings[term] }
                = { id \in DOMAIN documents : term \in TermsOfStored(id) }
          /\ \A i \in DOMAIN postings[term] :
                postings[term][i].value
                    = OccurrencesInStored(postings[term][i].key, term)
    /\ pc = "searched" =>
          \A i \in DOMAIN searchResults :
              /\ searchResults[i].document = documents[searchResults[i].document.id]
              /\ \E term \in TermsOfStored(searchResults[i].document.id) :
                    \E k \in DOMAIN searchQuery.text :
                        ToLowerCase(searchQuery.text[k]) = term

\* document 1 lost the term npm when it was replaced; a search for npm
\* returns document 2 only
PostingsDescribeStoredDocumentsWitness ==
    /\ pc = "searched"
    /\ replacedDocument = {[id |-> <<"doc", 1>>, text |-> <<"npm", "test">>]}
    /\ documents[<<"doc", 1>>].text = <<"test", "test">>
    /\ searchQuery.text = <<"npm">>
    /\ searchQuery.filters = {}
    /\ Len(searchResults) = 1
    /\ searchResults[1].document.id = <<"doc", 2>>

\* ----------------------------------------------------------------- C24
\* the ingested event of an id, with the place of its tool result in its
\* bucket
IngestedEvents ==
    UNION { { eventsBySession[s].events[i] : i \in DOMAIN eventsBySession[s].events } :
            s \in DOMAIN eventsBySession }

EventOfId(id) == CHOOSE e \in IngestedEvents : e.id = id

\* tool results of the event's session that were ingested after failure
\* and not after success
ToolResultsBetween(failure, success) ==
    { e \in IngestedEvents : /\ e.sessionId = failure.sessionId
                             /\ e.type = "tool_result"
                             /\ e.id > failure.id
                             /\ e.id <= success.id }

SameCommandRetry(failure, success) ==
    /\ failure.command # ""
    /\ success.command # ""
    /\ \/ failure.command = success.command
       \/ CommandTokenSet(failure.command) = CommandTokenSet(success.command)

\* C24: every artifact has evidenceEventIds = [failure, success] where the
\* failure is an error tool result, the success a non-error tool result of
\* the same session among the next 6 tool results after it and not an
\* unchanged retry of its command; a failing event has at most one
\* artifact and no two artifacts share a fingerprint.
ArtifactsAreWrongTurnFixes ==
    \A n \in DOMAIN minings :
        LET artifacts == minings[n]
        IN  /\ \A a \in DOMAIN artifacts :
                  /\ Len(artifacts[a].evidenceEventIds) = 2
                  /\ \E failure \in IngestedEvents, success \in IngestedEvents :
                        /\ artifacts[a].evidenceEventIds = <<failure.id, success.id>>
                        /\ failure.type = "tool_result"
                        /\ failure.isError
                        /\ success.type = "tool_result"
                        /\ ~success.isError
                        /\ success.sessionId = failure.sessionId
                        /\ success.id > failure.id
                        /\ Cardinality(ToolResultsBetween(failure, success))
                              <= LOOKAHEAD_RESULTS
                        /\ ~SameCommandRetry(failure, success)
            /\ \A a \in DOMAIN artifacts, b \in DOMAIN artifacts :
                  a # b =>
                     /\ artifacts[a].evidenceEventIds[1]
                           # artifacts[b].evidenceEventIds[1]
                     /\ artifacts[a].metadata # artifacts[b].metadata

\* a failure whose unchanged retries fill the window up to the fix, which
\* is the sixth tool result after it
ArtifactsAreWrongTurnFixesWitness ==
    /\ Len(minings) >= 1
    /\ Len(minings[1]) = 1
    /\ LET failure == EventOfId(minings[1][1].evidenceEventIds[1])
           success == EventOfId(minings[1][1].evidenceEventIds[2])
       IN  /\ Cardinality(ToolResultsBetween(failure, success)) = LOOKAHEAD_RESULTS
           /\ \E e \in ToolResultsBetween(failure, success) :
                 SameCommandRetry(failure, e)

\* a fix that lies behind the window of its failure gives no artifact
FixBehindWindowIsIgnored ==
    /\ Len(minings) >= 1
    /\ minings[1] = <<>>
    /\ \E failure \in IngestedEvents, success \in IngestedEvents :
          /\ failure.type = "tool_result"
          /\ failure.isError
          /\ success.command = "npm test -- --runInBand"
          /\ success.sessionId = failure.sessionId
          /\ success.id > failure.id
          /\ Cardinality(ToolResultsBetween(failure, success)) = LOOKAHEAD_RESULTS + 1

\* ----------------------------------------------------------------- C25
MineLimitOf(limit) == IF limit = {} THEN DefaultMineLimit ELSE CHOOSE l \in limit : TRUE

\* C25: mine(limit) returns at most limit artifacts for every limit >= 0,
\* and a second mine call with the same limit returns the same artifacts.
MineReturnsAtMostLimit ==
    /\ \A n \in DOMAIN minings : Len(minings[n]) <= MineLimitOf(mineLimit)
    /\ Len(minings) = 2 => minings[1] = minings[2]


\* C25, what holds: a mine call returns at most max(limit, 1) artifacts and
\* a second call with the same limit returns the same artifacts
MineReturnsAtMostLimitOrOne ==
    /\ \A n \in DOMAIN minings : Len(minings[n]) <= Max(MineLimitOf(mineLimit), 1)
    /\ Len(minings) = 2 => minings[1] = minings[2]

\* ----------------------------------------------------------------- C26
\* how often a session occurs in a list
Occurrences(list, session) ==
    Cardinality({ i \in DOMAIN list : list[i] = session })

\* every input session is in exactly one of the two lists, and with two or
\* more sessions neither list is empty
HoldoutPartitionsSessions ==
    pc = "split" =>
        /\ \A i \in DOMAIN sessions :
              Occurrences(holdout.trainSessions, sessions[i])
                  + Occurrences(holdout.evalSessions, sessions[i])
                  = Occurrences(sessions, sessions[i])
        /\ Len(holdout.trainSessions) + Len(holdout.evalSessions) = Len(sessions)
        /\ \A i \in DOMAIN holdout.trainSessions, j \in DOMAIN holdout.evalSessions :
              holdout.trainSessions[i] # holdout.evalSessions[j]
        /\ Len(sessions) >= 2 =>
              /\ holdout.trainSessions # <<>>
              /\ holdout.evalSessions # <<>>

\* C26: splitSessionsChronologically partitions its input (no session lost,
\* duplicated or in both lists), leaves the input array as it was, and
\* returns two non-empty lists for two or more sessions.
SplitPartitionsItsInput ==
    /\ []HoldoutPartitionsSessions
    /\ [][pc' = "split" => sessions' = sessions]_vars

\* three sessions handed over out of chronological order, split two to one
SplitPartitionsItsInputWitness ==
    /\ pc = "split"
    /\ Len(sessions) = 3
    /\ sessions[1].startedAt > sessions[2].startedAt
    /\ sessions[2].startedAt > sessions[3].startedAt
    /\ Len(holdout.trainSessions) = 2
    /\ Len(holdout.evalSessions) = 1
    /\ holdout.evalSessions[1] = sessions[1]


\* ----------------------------------------------------------------- C27
RECURSIVE TotalPairCount(_)
TotalPairCount(summaries) ==
    IF summaries = <<>> THEN 0
    ELSE Head(summaries).pairCount + TotalPairCount(Tail(summaries))

\* the summaries of a dimension that carry the key
StrataOfKey(dimension, key) ==
    { i \in 1..Len(strata[dimension]) : strata[dimension][i].key = key }

\* the episode a pair names
StrataEpisodeOfId(episodeId) ==
    CHOOSE e \in { strataEpisodes[i] : i \in 1..Len(strataEpisodes) } : e.id = episodeId

\* the pair's key is the key of its off episode and of its on episode
PairSharesStratumWithItsEpisodes(dimension, pair) ==
    /\ EpisodeKey(dimension, StrataEpisodeOfId(pair.offEpisodeId), SessionModelKeys)
           = PairKey(dimension, pair, SessionModelKeys)
    /\ EpisodeKey(dimension, StrataEpisodeOfId(pair.onEpisodeId), SessionModelKeys)
           = PairKey(dimension, pair, SessionModelKeys)

\* each pair is counted in one stratum of the dimension, and the pair counts
\* of the dimension add up to the number of pairs
PairsAreCountedOnce(dimension) ==
    /\ TotalPairCount(strata[dimension]) = Len(strataPairs)
    /\ \A k \in 1..Len(strataPairs) :
          /\ Cardinality(StrataOfKey(dimension,
                 PairKey(dimension, strataPairs[k], SessionModelKeys))) = 1
          /\ \A i \in StrataOfKey(dimension,
                 PairKey(dimension, strataPairs[k], SessionModelKeys)) :
                strata[dimension][i].pairCount >= 1

\* the off session and the on session of the pair resolve to one model key
PairIsOfOneModel(pair) ==
    ModelOfSession(pair.offSessionId, SessionModelKeys)
        = ModelOfSession(pair.onSessionId, SessionModelKeys)

\* C27 as stated: in every dimension each pair is counted in exactly one
\* stratum, that stratum is the one of the pair's off episode and on episode,
\* and no stratum has pairs but no episodes
StrataGroupPairsWithTheirEpisodes ==
    pc = "strata" =>
        \A dimension \in StratumDimensions :
            /\ PairsAreCountedOnce(dimension)
            /\ \A k \in 1..Len(strataPairs) :
                  PairSharesStratumWithItsEpisodes(dimension, strataPairs[k])
            /\ \A i \in 1..Len(strata[dimension]) :
                  strata[dimension][i].pairCount > 0
                      => strata[dimension][i].episodeCount > 0

\* C27 amended: in every dimension each pair is counted in exactly one
\* stratum; by tool surface, and by model when both sessions of the pair have
\* one model key, that stratum holds the pair's two episodes; a pair across
\* sessions of different models is counted by model in a "mixed" stratum that
\* holds neither of its episodes
StrataGroupPairsByPairKey ==
    pc = "strata" =>
        \A dimension \in StratumDimensions :
            /\ PairsAreCountedOnce(dimension)
            /\ \A k \in 1..Len(strataPairs) :
                  LET pair == strataPairs[k]
                      key == PairKey(dimension, pair, SessionModelKeys)
                  IN  IF dimension = "toolSurface" \/ PairIsOfOneModel(pair)
                      THEN /\ PairSharesStratumWithItsEpisodes(dimension, pair)
                           /\ \A i \in StrataOfKey(dimension, key) :
                                 strata[dimension][i].episodeCount >= 2
                      ELSE /\ Head(key) = "mixed"
                           /\ EpisodeKey(dimension,
                                  StrataEpisodeOfId(pair.offEpisodeId),
                                  SessionModelKeys) # key
                           /\ EpisodeKey(dimension,
                                  StrataEpisodeOfId(pair.onEpisodeId),
                                  SessionModelKeys) # key
                           /\ \A i \in StrataOfKey(dimension, key) :
                                 strata[dimension][i].episodeCount = 0

\* a pair across the two models has been grouped: its "mixed" stratum of the
\* model dimension has one pair and no episode, next to a third episode
StrataGroupPairsByPairKeyWitness ==
    /\ pc = "strata"
    /\ Len(strataEpisodes) = 3
    /\ Len(strataPairs) = 1
    /\ ~PairIsOfOneModel(strataPairs[1])
    /\ \E i \in 1..Len(strata.model) :
          /\ strata.model[i].key = <<"mixed", "claude", "gpt">>
          /\ strata.model[i].pairCount = 1
          /\ strata.model[i].episodeCount = 0


\* ----------------------------------------------------------------- C28
\* this step is a call of resolveTeamId(token) that sends a request
ContactsRemote(token) ==
    lookups' = lookups (+) SetToBag({PendingLookup(token, clockMs)})

\* this step is a call of resolveTeamId(token) answered with teamId without
\* a request
ServedFromCache(token, teamId) ==
    /\ lookups' = lookups
    /\ resolved' = {Resolution(token, clockMs, teamId, 0, FALSE)}

\* this step is a call of resolveTeamId(token)
CallsResolveTeamId(token) ==
    \/ ContactsRemote(token)
    \/ /\ lookups' = lookups
       /\ \E r \in resolved' : r.token = token

\* this step ends a remote lookup of token with the outcome
LookupEnds(token, outcome) ==
    /\ BagCardinality(lookups') = BagCardinality(lookups) - 1
    /\ \E r \in resolved' : r.token = token
    /\ \E l \in lastLookup'[token] : l.outcome = outcome

\* a call after a lookup that ended "ok" or "denied": the answer comes from
\* the cache while the clock is before the start of that lookup plus the
\* time to live, and from the remote from then on
CallAfterDefiniteAnswer(token) ==
    \A l \in lastLookup[token] :
        /\ l.outcome = "ok" =>
              IF clockMs < l.nowMs + CacheTtlMs
              THEN l.teamId # {} /\ ServedFromCache(token, l.teamId)
              ELSE ContactsRemote(token)
        /\ l.outcome = "denied" =>
              IF clockMs < l.nowMs + NegativeCacheTtlMs
              THEN ServedFromCache(token, {})
              ELSE ContactsRemote(token)

\* the end of a lookup with any other outcome: a 503 error, the cache as it was
FailureLeavesCache(token) ==
    LookupEnds(token, "failed") =>
        /\ cache' = cache
        /\ \A r \in resolved' : r.statusCode = 503 /\ r.teamId = {} /\ r.remote

\* the end of a lookup with a definite answer: the answer is returned
DefiniteAnswerIsReturned(token) ==
    /\ LookupEnds(token, "ok") =>
          \A r \in resolved', l \in lastLookup'[token] :
              r.statusCode = 0 /\ r.teamId = l.teamId /\ r.teamId # {}
    /\ LookupEnds(token, "denied") =>
          \A r \in resolved' : r.statusCode = 0 /\ r.teamId = {}

\* C28 as stated: after a successful lookup the teamId comes from the cache
\* until cacheTtlMs after the start of the lookup, after a 401/403 null comes
\* from the cache until negativeCacheTtlMs after its start, and any other
\* outcome throws 503 and leaves the cache, so that the next call for the
\* token contacts the remote
RemoteAuthCachesDefiniteAnswers ==
    [][\A token \in AuthTokens :
          /\ CallsResolveTeamId(token) =>
                /\ CallAfterDefiniteAnswer(token)
                /\ \A l \in lastLookup[token] :
                      l.outcome = "failed" => ContactsRemote(token)
          /\ FailureLeavesCache(token)
          /\ DefiniteAnswerIsReturned(token)]_vars

\* C28 amended: as stated for the lookup of the token that finished last
\* with a definite answer; a lookup with any other outcome throws 503 and
\* leaves the cache, and the next call for the token contacts the remote
\* unless a lookup that was waiting at the same time has left an entry that
\* has not expired, which is then served
RemoteAuthCachesLastDefiniteAnswer ==
    [][\A token \in AuthTokens :
          /\ CallsResolveTeamId(token) =>
                /\ CallAfterDefiniteAnswer(token)
                /\ \A l \in lastLookup[token] :
                      l.outcome = "failed" =>
                          IF \E entry \in cache[token] : entry.expiresAtMs > clockMs
                          THEN \E entry \in cache[token] :
                                  ServedFromCache(token, entry.teamId)
                          ELSE ContactsRemote(token)
          /\ FailureLeavesCache(token)
          /\ DefiniteAnswerIsReturned(token)]_vars

\* a successful lookup of token-a that began at 0 was followed by a lookup
\* that failed, and at the last instant before the entry expires the team id
\* has been served from the cache
RemoteAuthCachesLastDefiniteAnswerWitness ==
    /\ clockMs = CacheTtlMs - 1
    /\ lookups = EmptyBag
    /\ cache["token-a"] = {[teamId |-> {"team-a"}, expiresAtMs |-> CacheTtlMs]}
    /\ lastLookup["token-a"] = {[nowMs |-> 0, outcome |-> "failed", teamId |-> {}]}
    /\ resolved = {Resolution("token-a", CacheTtlMs - 1, {"team-a"}, 0, FALSE)}


\* ----------------------------------------------------------------- C30
\* the timestamp string of the record at the position (counted from 1)
PiTimestampAt(position) ==
    IF piRecords[position].timestamp # {}
    THEN CHOOSE t \in piRecords[position].timestamp : TRUE
    ELSE fallbackTimestamp(position - 1)

\* the record is a tool result of the selected tool that names a call
IsSelectedToolResult(position) ==
    /\ piRecords[position].type = "message"
    /\ piRecords[position].role = "toolResult"
    /\ piRecords[position].toolName = PiToolName
    /\ piRecords[position].toolCallId # ""

\* the assistant message at the position records a call with the id
RecordsCall(position, toolCallId) ==
    /\ piRecords[position].type = "message"
    /\ piRecords[position].role = "assistant"
    /\ \E i \in DOMAIN MatchingToolCalls(piRecords[position].content, PiToolName) :
          MatchingToolCalls(piRecords[position].content, PiToolName)[i].id = toolCallId

\* the call the tool result at the position consumes, if any: the last
\* assistant message before it that records its id, unless a tool result of
\* that id lies between the two
SourceCall(position) ==
    LET toolCallId == piRecords[position].toolCallId
        recorded == { a \in 1..(position - 1) : RecordsCall(a, toolCallId) }
    IN  { a \in recorded :
            /\ \A b \in recorded : b <= a
            /\ \A j \in (a + 1)..(position - 1) :
                  ~(IsSelectedToolResult(j) /\ piRecords[j].toolCallId = toolCallId) }

\* the tool result at the position is accepted: it has a call or an output
IsAcceptedToolResult(position) ==
    /\ IsSelectedToolResult(position)
    /\ SourceCall(position) # {} \/ piRecords[position].output # ""

AcceptedUpTo(position) ==
    Cardinality({ i \in 1..position : IsAcceptedToolResult(i) })

\* the command the assistant message at the position records for the id
CommandOfCall(position, toolCallId) ==
    LET calls == MatchingToolCalls(piRecords[position].content, PiToolName)
        last == CHOOSE i \in DOMAIN calls :
                    /\ calls[i].id = toolCallId
                    /\ \A j \in DOMAIN calls : calls[j].id = toolCallId => j <= i
    IN  calls[last].command

\* the milliseconds of the last message before the position that has some
PreviousMessageMs(position) ==
    LET dated == { b \in 1..(position - 1) :
                     /\ piRecords[b].type = "message"
                     /\ parseTimestampMs(PiTimestampAt(b)) # {} }
    IN  IF dated = {} THEN {}
        ELSE parseTimestampMs(PiTimestampAt(CHOOSE b \in dated : \A c \in dated : c <= b))

\* the event of the accepted tool result at the position is the one the
\* record and its call, if any, determine
EventIsOfRecord(event, position) ==
    LET record == piRecords[position]
        source == SourceCall(position)
    IN  /\ event.id = <<PiSessionId, "pi-tool-result", AcceptedUpTo(position)>>
        /\ event.timestamp = PiTimestampAt(position)
        /\ event.output = record.output
        /\ IF source = {}
           THEN /\ event.command = ""
                /\ event.latencyMs.num = 0
                /\ event.tokens = {}
                /\ event.cost = {}
           ELSE \A a \in source :
                LET parts == Len(MatchingToolCalls(piRecords[a].content, PiToolName))
                    callMs == parseTimestampMs(PiTimestampAt(a))
                IN  /\ event.command = CommandOfCall(a, record.toolCallId)
                    /\ event.command # ""
                    /\ event.latencyMs =
                          Frac(nonNegativeDeltaMs(callMs,
                                   parseTimestampMs(PiTimestampAt(position))) * parts
                               + nonNegativeDeltaMs(PreviousMessageMs(a), callMs),
                               parts)
                    /\ event.tokens = IF piRecords[a].usage.input > 0
                                      THEN {Frac(piRecords[a].usage.input, parts)} ELSE {}
                    /\ event.cost = IF piRecords[a].usage.cost > 0
                                    THEN {Frac(piRecords[a].usage.cost, parts)} ELSE {}

\* C30: the events are one per accepted tool result of the selected tool, in
\* record order, with the ids 1..k; each recorded call gives its command,
\* model latency, tokens and cost to at most one event, and a tool result
\* whose call was consumed before it (or never recorded) gets the empty
\* command and no latency, tokens or cost
EventsConsumeEachCallOnce ==
    pc = "built" =>
        \A events \in piTraceEvents :
            /\ Len(events) = AcceptedUpTo(Len(piRecords))
            /\ \A k \in 1..Len(events) :
                  events[k].id = <<PiSessionId, "pi-tool-result", k>>
            /\ \A i \in 1..Len(piRecords) :
                  IsAcceptedToolResult(i) =>
                      EventIsOfRecord(events[AcceptedUpTo(i)], i)
            /\ \A i, j \in 1..Len(piRecords) :
                  /\ i < j
                  /\ IsAcceptedToolResult(i)
                  /\ IsAcceptedToolResult(j)
                  /\ piRecords[i].toolCallId = piRecords[j].toolCallId
                  => SourceCall(i) \cap SourceCall(j) = {}

\* a call with usage was recorded and two tool results named it: the first
\* event has its command, tokens and cost, the second the empty command and
\* none of them
EventsConsumeEachCallOnceWitness ==
    /\ pc = "built"
    /\ Len(piRecords) = 4
    /\ RecordsCall(2, "call-1")
    /\ IsAcceptedToolResult(3)
    /\ IsAcceptedToolResult(4)
    /\ piRecords[3].toolCallId = "call-1"
    /\ piRecords[4].toolCallId = "call-1"
    /\ \A events \in piTraceEvents :
          /\ Len(events) = 2
          /\ events[1].command = "npm test"
          /\ events[1].tokens = {Frac(4, 1)}
          /\ events[1].cost = {Frac(2, 1)}
          /\ events[1].latencyMs = Frac(20, 1)
          /\ events[2].command = ""
          /\ events[2].tokens = {}
          /\ events[2].cost = {}
          /\ events[2].latencyMs = Frac(0, 1)

=============================================================================
